---- MODULE Spec2Model ----
(***************************************************************************)
(* State-machine model of the electron-updater bundle lifecycle:           *)
(*   - DownloadManager (download-manager.ts): downloadBundle pipeline,     *)
(*     zip-slip checks, manifest pass;                                     *)
(*   - ElectronUpdater (index.ts): initialize, reload and the app-ready    *)
(*     watchdog, notifyAppReady, checkForUpdates, set/next/reset;          *)
(*   - StorageManager, CryptoManager, BundleManager, DelayManager: their   *)
(*     sources are not in the tree, they are modelled from the written     *)
(*     specification (sections 4.A, 4.B, 4.D, 4.E).                        *)
(***************************************************************************)
EXTENDS Integers, Sequences, FiniteSets, TLC

(***************************************************************************)
(* Bounds                                                                  *)
(***************************************************************************)
\* number of bundle ids generateBundleId hands out in one run
MaxBundles == 2
\* number of downloadBundle calls of a run that draws every input
MaxDownloads == 1
\* number of watchdog timers, pending or with their callback running, in a
\* run of the reload and watchdog handlers
MaxTimers == 2
\* the same number in a run of the whole updater
MaxArmed == 1

(***************************************************************************)
(* Values                                                                  *)
(***************************************************************************)
NULL == "null"
BUILTIN_BUNDLE_ID == "builtin"
PLUGIN_VERSION == "0.0.1"
\* what os.release() answers on the machine at hand
OsRelease == "os.release()"

\* the n-th id produced by CryptoManager.generateBundleId (random, hence fresh)
BundleIdOf(n) == "b" \o ToString(n)
BundleIds == {BundleIdOf(n) : n \in 1..MaxBundles}

SeqToSet(s) == {s[i] : i \in 1..Len(s)}

(***************************************************************************)
(* Paths: a path is the sequence of its segments; a raw name as it appears *)
(* in a zip entry or a manifest entry also says whether it starts with the *)
(* separator.                                                              *)
(***************************************************************************)
RawName(abs, segs) == [abs |-> abs, segs |-> segs]

StartsWithDotDot(seg) == seg \in {"..", "..hidden"}
EndsWithDotDot(seg) == seg \in {"..", "v1.."}

RECURSIVE NormalizeFrom(_, _)
NormalizeFrom(acc, rest) ==
  IF rest = <<>> THEN acc
  ELSE LET seg == Head(rest) IN
       IF seg = ".."
       THEN NormalizeFrom(IF acc = <<>> THEN acc ELSE SubSeq(acc, 1, Len(acc) - 1),
                          Tail(rest))
       ELSE IF seg \in {".", ""}
       THEN NormalizeFrom(acc, Tail(rest))
       ELSE NormalizeFrom(Append(acc, seg), Tail(rest))

\* path.normalize of an absolute path
PathNormalize(p) == NormalizeFrom(<<>>, p)

\* path.join(dir, name) with dir absolute: concatenates, then normalizes
PathJoin(dir, name) == PathNormalize(dir \o name.segs)

\* path.dirname of a normalized absolute path
PathDirname(p) == IF p = <<>> THEN p ELSE SubSeq(p, 1, Len(p) - 1)

IsPrefix(a, b) == Len(a) <= Len(b) /\ SubSeq(b, 1, Len(a)) = a

\* StorageManager.getBundlePath(bundleId): <userData>/capgo-bundles/<id>
getBundlePath(id) == <<"userData", "capgo-bundles", id>>
ExtractPathOf(id) == getBundlePath(id) \o <<"www">>
IndexPathOf(id) == ExtractPathOf(id) \o <<"index.html">>

\* filePath.includes(sep + '..') || filePath.includes('..' + sep), filePath absolute
HasTraversalPattern(filePath) ==
  \E i \in 1..Len(filePath) :
    \/ StartsWithDotDot(filePath[i])
    \/ (EndsWithDotDot(filePath[i]) /\ i < Len(filePath))

\* isPathSafe with the prefix test left out
isPathSafeNoPrefix(filePath, allowedDir) == ~HasTraversalPattern(filePath)

isPathSafe(filePath, allowedDir) ==
  LET normalizedPath == PathNormalize(filePath)
      normalizedAllowedDir == PathNormalize(allowedDir)
  IN /\ IsPrefix(normalizedAllowedDir, normalizedPath)
     /\ ~HasTraversalPattern(filePath)

(***************************************************************************)
(* CryptoManager (specification 4.B): digests, checksum field, payload.    *)
(* A zip is [arch, enc]: which archive it holds and the session key it is  *)
(* encrypted with ("" when it is plain).                                   *)
(***************************************************************************)
NoChecksum == <<>>
NoZip == [arch |-> "", enc |-> ""]

\* calculateFileChecksum(zipPath): SHA-256 of the bytes on disk
calculateFileChecksum(zip) == <<"sha256", zip.arch, zip.enc>>
\* digest of an extracted or manifest file with the given content
hashFile(content) == <<"sha256", content>>
\* verifyFileChecksum(path, expected): equality of digests
verifyFileChecksum(digest, expected) == digest = expected
\* a checksum field encrypted under a session key, as the server may send it
WrapChecksum(h, key) == <<"enc", key>> \o h
\* decryptChecksum(field, sessionKey): the plaintext digest, or null
\* (NoChecksum) when the field is not in the encrypted format
decryptChecksum(field, key) ==
  IF Len(field) > 2 /\ field[1] = "enc" /\ field[2] = key
  THEN SubSeq(field, 3, Len(field))
  ELSE NoChecksum
\* decryptFile(path, sessionKey): true and the file decrypted in place when
\* the file is encrypted under that key, false otherwise
decryptFileOk(zip, key) == zip.enc = key
decryptFile(zip, key) == [zip EXCEPT !.enc = ""]

(***************************************************************************)
(* Inputs: archives the server may serve, options the caller may pass.     *)
(***************************************************************************)
ArchiveNames == {"good", "noindex", "slip", "abs", "inner", "pair"}

Archive(name) ==
  CASE name = "good"    -> << RawName(FALSE, <<"index.html">>) >>
    [] name = "noindex" -> << RawName(FALSE, <<"app.js">>) >>
    [] name = "slip"    -> << RawName(FALSE, <<"index.html">>),
                              RawName(FALSE, <<"..", "..", "evil.sh">>) >>
    [] name = "abs"     -> << RawName(TRUE, <<"etc", "evil.sh">>) >>
    [] name = "inner"   -> << RawName(FALSE, <<"a", "..", "index.html">>) >>
    [] name = "pair"    -> << RawName(FALSE, <<"index.html">>),
                              RawName(FALSE, <<"app.js">>) >>
    [] OTHER            -> << >>

SessionKeys == {"", "k1"}
ServedZips == {[arch |-> a, enc |-> e] : a \in ArchiveNames, e \in SessionKeys}

PlainGood == [arch |-> "good", enc |-> ""]
EncGood == [arch |-> "good", enc |-> "k1"]
PlainNoIndex == [arch |-> "noindex", enc |-> ""]

Checksums ==
  { NoChecksum,
    calculateFileChecksum(PlainGood),
    calculateFileChecksum(EncGood),
    calculateFileChecksum(PlainNoIndex),
    WrapChecksum(calculateFileChecksum(PlainGood), "k1"),
    WrapChecksum(calculateFileChecksum(EncGood), "k1"),
    <<"deadbeef">> }

ManifestEntry(name, url, hash) ==
  [file_name |-> name, download_url |-> url, file_hash |-> hash]

ManifestNames == {"none", "index", "slip", "nohash", "abs", "inner", "stale", "three"}

Manifest(name) ==
  CASE name = "index"  -> << ManifestEntry(RawName(FALSE, <<"index.html">>), "u1",
                                           hashFile("c1")) >>
    [] name = "slip"   -> << ManifestEntry(RawName(FALSE, <<"..", "..", "evil.sh">>),
                                           "u2", NoChecksum) >>
    [] name = "nohash" -> << ManifestEntry(RawName(FALSE, <<"app.js">>), "u3",
                                           NoChecksum) >>
    [] name = "abs"    -> << ManifestEntry(RawName(TRUE, <<"etc", "evil.sh">>), "u4",
                                           NoChecksum) >>
    [] name = "inner"  -> << ManifestEntry(RawName(FALSE, <<"a", "..", "app.js">>),
                                           "u5", NoChecksum) >>
    [] name = "stale"  -> << ManifestEntry(RawName(FALSE, <<"index.html">>), "u6",
                                           hashFile("c2")) >>
    [] name = "three"  -> << ManifestEntry(RawName(FALSE, <<"index.html">>), "u1",
                                           hashFile("c1")),
                             ManifestEntry(RawName(FALSE, <<"app.js">>), "u3",
                                           NoChecksum),
                             ManifestEntry(RawName(FALSE, <<"style.css">>), "u7",
                                           hashFile("c2")) >>
    [] OTHER           -> << >>

\* what a manifest URL may answer: a body (possibly Brotli-compressed), or ""
\* for a failed request
Contents == {"c1", "c2"}
Responses == Contents \cup {"br(c1)", ""}
\* tryDecompressBrotli(bytes): the decompressed bytes of a Brotli stream, else
\* the input unchanged
tryDecompressBrotli(data) == IF data = "br(c1)" THEN "c1" ELSE data

DownloadOptions(checksum, sessionKey, manifest) ==
  [checksum |-> checksum, sessionKey |-> sessionKey, manifest |-> manifest]

AllOptions ==
  {DownloadOptions(c, k, m) : c \in Checksums, k \in SessionKeys, m \in ManifestNames}

\* the options and zips of the runs that interleave several calls
FewOptions ==
  { DownloadOptions(NoChecksum, "", "none"),
    DownloadOptions(WrapChecksum(calculateFileChecksum(EncGood), "k1"), "k1", "nohash") }
FewZips == {PlainGood, EncGood}

\* options.url, and the URLs a server names in the Location header of a 3xx
\* response
BundleUrl == "https://updates.example.com/bundle.zip"
Locations == {BundleUrl, "https://mirror.example.com/bundle.zip"}

(***************************************************************************)
(* State                                                                   *)
(***************************************************************************)
VARIABLES
  \* Store (in-memory registry and pointers)
  bundles,           \* bundle id -> status ("absent": no record)
  currentBundleId,
  nextBundleId,      \* NULL when unset
  fallbackBundleId,  \* NULL when unset
  \* filesystem
  fsDirs,            \* bundle ids whose directory <root>/<id>/ exists
  fsFiles,           \* files written by extraction and manifest: path -> content
  \* DownloadManager
  idSeq,             \* how many bundle ids have been generated
  dl,                \* the downloadBundle calls: slot -> frame of the call
  \* ElectronUpdater fields
  config,            \* this.config (the options the model varies)
  initialized,       \* this.initialized
  mainWindow,        \* this.mainWindow is set
  appReadyReceived,  \* this.appReadyReceived
  appReadyTimeout,   \* this.appReadyTimeout: NoTimer for null, else whether the
                     \* timer it refers to is still "pending" or has "fired"
  periodCheckInterval, \* this.periodCheckInterval: a handle, NoInterval for null
  \* host: timers, window, registrations
  orphanTimers,      \* watchdog timers pending that appReadyTimeout no longer
                     \* refers to (nothing can clear them)
  intervals,         \* interval timers that are active
  built,             \* how often initialize built the Store and registered handlers
  loaded,            \* the bundle whose path the window was last told to load
  \* DelayManager
  delay,             \* the armed delay condition ("none" or "background")
  inBackground,      \* the window is blurred
  \* async calls in flight
  initCall,          \* initialize calls: call -> position
  apply,             \* checkAndApplyPendingUpdate calls: task -> frame
  wdog,              \* watchdog callbacks suspended at an await: how many,
                     \* by the bundle that current() answered them
  chk,               \* the checkForUpdates call
  usr,               \* the set()/reset() call of the host application
  ntf,               \* the notifyAppReady call
  setter,            \* the setUpdateUrl/setStatsUrl/setChannelUrl/setAppId call
  \* the settings the application may change at run time
  clients,           \* the URL and appId fields of StatsManager and ChannelManager
  stored,            \* Store in memory: the persisted URLs and appId
  persisted,         \* the same fields in the Store's file
  \* what the updater hands to its surroundings
  emitted,           \* the event passed to eventEmitter.emit in this step
  sent,              \* the telemetry event passed to StatsManager in this step
  settled,           \* the call that settled in this step, and how
  answered,          \* what the stats request awaited up to this step met
  \* channel
  channel,           \* the channel held by the Store, NULL when unset
  chan               \* the setChannel/unsetChannel/getChannel call

storeVars == <<bundles, currentBundleId, nextBundleId, fallbackBundleId>>
fsVars == <<fsDirs, fsFiles>>
dlVars == <<idSeq, dl>>
fieldVars == <<config, initialized, mainWindow, periodCheckInterval, intervals, built>>
reloadVars == <<appReadyReceived, appReadyTimeout, orphanTimers, loaded>>
delayVars == <<delay, inBackground>>
taskVars == <<initCall, apply, wdog, chk, usr>>
outVars == <<emitted, sent, settled, answered>>
urlVars == <<setter, clients, stored, persisted>>
apiVars == <<ntf, channel, chan, urlVars>>
coordVars == <<fieldVars, reloadVars, delayVars, taskVars, apiVars>>

\* an event of the emitter or a telemetry event, with the bundle it carries
\* (earlier: the events emitted before it in the same step)
Nothing == [event |-> NULL, bundle |-> NULL, earlier |-> <<>>]
Event(name, id) == [event |-> name, bundle |-> id, earlier |-> <<>>]
EventAfter(names, name, id) == [event |-> name, bundle |-> id, earlier |-> names]

\* a call of the updater that settled: resolved or rejected, and with what
NoResult == [call |-> NULL, result |-> NULL]
Result(name, how) == [call |-> name, result |-> how]

\* what a step hands to the surroundings: the event it emits, the telemetry
\* event it sends, the call it settles
Output(event, telemetry, result) ==
  /\ emitted' = event
  /\ sent' = telemetry
  /\ settled' = result

Silent == Output(Nothing, Nothing, NoResult) /\ answered' = NULL

\* two downloadBundle calls may be in flight at once
Slots == {1, 2}

NoFiles == [p \in {} |-> ""]

\* the frame of a downloadBundle call: its options, its locals (bundleId,
\* bundleInfo, expectedChecksum), the zip at zipPath, and where it stands
IdleCall ==
  [pc |-> "idle", id |-> NULL, url |-> NULL,
   checksum |-> NoChecksum, sessionKey |-> "", manifest |-> "none",
   zip |-> NoZip, fetched |-> NoZip, expected |-> NoChecksum,
   infoChecksum |-> NoChecksum, infoStatus |-> "",
   mfetched |-> {}, faulted |-> FALSE, error |-> "", thrown |-> ""]

\* StorageManager.setBundle / deleteBundle on the in-memory registry
setBundle(reg, id, status) == [reg EXCEPT ![id] = status]
deleteBundle(reg, id) == [reg EXCEPT ![id] = "absent"]

\* the removal that takes the directory's parent, the bundles root, with it
RemoveTreeOfParent(files, dir) ==
  [p \in {q \in DOMAIN files : ~IsPrefix(SubSeq(dir, 1, Len(dir) - 1), q)} |-> files[p]]

\* fs.promises.rm(dir, {recursive, force}): the directory and all below it
RemoveTree(files, dir) ==
  [p \in {q \in DOMAIN files : ~IsPrefix(dir, q)} |-> files[p]]

WriteFile(files, path, content) == (path :> content) @@ files

(***************************************************************************)
(* DownloadManager.extractZipSecurely                                      *)
(***************************************************************************)
\* the onEntry callback: true when it returns, false when it throws
onEntry(fileName, extractPath) ==
  LET entryPath == PathJoin(extractPath, fileName)
  IN isPathSafe(entryPath, extractPath) /\ ~fileName.abs

\* extract-zip calls onEntry for an entry and then writes it at
\* join(dir, fileName); an onEntry that throws ends the extraction
RECURSIVE extractZipSecurely(_, _, _)
extractZipSecurely(entries, extractPath, files) ==
  IF entries = <<>> THEN [ok |-> TRUE, files |-> files]
  ELSE IF ~onEntry(Head(entries), extractPath) THEN [ok |-> FALSE, files |-> files]
  ELSE extractZipSecurely(Tail(entries), extractPath,
                          WriteFile(files, PathJoin(extractPath, Head(entries)), "c1"))

(***************************************************************************)
(* DownloadManager.downloadManifestFiles / checkFileInCache                *)
(***************************************************************************)
\* the cache check that takes every existing file, whatever its digest
checkFileInCacheAnyContent(files, filePath, expectedHash) == filePath \in DOMAIN files

\* access(filePath) succeeds and, with a hash, verifyFileChecksum holds
checkFileInCache(files, filePath, expectedHash) ==
  /\ filePath \in DOMAIN files
  /\ \/ expectedHash = NoChecksum
     \/ verifyFileChecksum(hashFile(files[filePath]), expectedHash)

\* acc = [files, fetched, error]; resp[i] is what the i-th download_url answers
RECURSIVE downloadManifestFiles(_, _, _, _, _)
downloadManifestFiles(manifest, i, destPath, resp, acc) ==
  IF i > Len(manifest) THEN acc
  ELSE
    LET entry == manifest[i]
        filePath == PathJoin(destPath, entry.file_name)
    IN
    IF entry.file_name.segs = <<>> \/ entry.download_url = ""
    THEN downloadManifestFiles(manifest, i + 1, destPath, resp, acc)
    ELSE IF ~isPathSafe(filePath, destPath)
    THEN [acc EXCEPT !.error = "manifest-path"]
    ELSE IF checkFileInCache(acc.files, filePath, entry.file_hash)
    THEN downloadManifestFiles(manifest, i + 1, destPath, resp, acc)
    ELSE IF resp[i] = ""
    THEN [acc EXCEPT !.error = "manifest-download", !.fetched = @ \cup {i}]
    ELSE
      LET written == WriteFile(acc.files, filePath, tryDecompressBrotli(resp[i]))
          acc2 == [acc EXCEPT !.files = written, !.fetched = @ \cup {i}]
      IN
      IF /\ entry.file_hash # NoChecksum
         /\ ~verifyFileChecksum(hashFile(written[filePath]), entry.file_hash)
      THEN [acc2 EXCEPT !.error = "hash"]
      ELSE downloadManifestFiles(manifest, i + 1, destPath, resp, acc2)

(***************************************************************************)
(* DownloadManager.downloadBundle: one action per suspension point.  The   *)
(* action named XDone is the continuation that runs when the awaited X     *)
(* settles; the environment decides whether X succeeded.                   *)
(***************************************************************************)
\* catch (error) { bundleInfo.status = 'error'; setBundle; save() ... }
Caught(frame, err) ==
  [frame EXCEPT !.pc = "catchSave", !.error = err, !.infoStatus = "error"]

\* bundleInfo.status = 'success'; setBundle; save() ...
MarkedSuccess(frame) == [frame EXCEPT !.pc = "saveSuccess", !.infoStatus = "success"]

\* let expectedChecksum = options.checksum; decrypted with the session key
\* when that gives a value
ExpectedChecksum(checksum, sessionKey) ==
  IF checksum # NoChecksum /\ sessionKey # ""
     /\ decryptChecksum(checksum, sessionKey) # NoChecksum
  THEN decryptChecksum(checksum, sessionKey)
  ELSE checksum

\* the verification that ignores the comparison's result
ChecksumAcceptedAlways(frame) == TRUE

\* if (expectedChecksum) { valid = verifyFileChecksum(zipPath, expected) }
ChecksumAccepted(frame) ==
  \/ frame.expected = NoChecksum
  \/ verifyFileChecksum(calculateFileChecksum(frame.zip), frame.expected)

\* the cleanup that forgets the registry record
CleanupRegistryKept(reg, id) == reg

\* this.storage.deleteBundle(bundleId) of the cleanup
CleanupRegistry(reg, id) == deleteBundle(reg, id)

\* const bundleId = generateBundleId(); ... await mkdir(bundlePath)
DownloadBundleStart(d, opts, limit) ==
  /\ dl[d].pc = "idle"
  /\ idSeq < limit
  /\ idSeq' = idSeq + 1
  /\ dl' = [dl EXCEPT ![d] =
              [IdleCall EXCEPT !.pc = "mkdir", !.id = BundleIdOf(idSeq + 1),
                               !.url = BundleUrl,
                               !.checksum = opts.checksum,
                               !.sessionKey = opts.sessionKey,
                               !.manifest = opts.manifest]]
  /\ UNCHANGED <<storeVars, fsVars>>

\* mkdir settled; bundleInfo = {status: 'downloading'}; setBundle; await save()
MkdirDone(d) ==
  /\ dl[d].pc = "mkdir"
  /\ \/ /\ fsDirs' = fsDirs \cup {dl[d].id}
        /\ bundles' = setBundle(bundles, dl[d].id, "downloading")
        /\ dl' = [dl EXCEPT ![d].pc = "saveInitial", ![d].infoStatus = "downloading",
                            ![d].infoChecksum = dl[d].checksum]
        /\ UNCHANGED <<currentBundleId, nextBundleId, fallbackBundleId, fsFiles, idSeq>>
     \/ /\ dl' = [dl EXCEPT ![d].pc = "thrown", ![d].thrown = "mkdir",
                            ![d].error = "mkdir", ![d].faulted = TRUE]
        /\ UNCHANGED <<storeVars, fsVars, idSeq>>
  /\ UNCHANGED coordVars
  /\ Silent

\* the initial save() settled (outside the try block); await downloadFile(...)
SaveInitialDone(d) ==
  /\ dl[d].pc = "saveInitial"
  /\ \/ dl' = [dl EXCEPT ![d].pc = "fetch"]
     \/ dl' = [dl EXCEPT ![d].pc = "thrown", ![d].thrown = "save",
                         ![d].error = "save", ![d].faulted = TRUE]
  /\ UNCHANGED <<storeVars, fsVars, idSeq>>
  /\ UNCHANGED coordVars
  /\ Silent

\* downloadFile settled; expectedChecksum resolved; await verify/calculate
DownloadFileDone(d, zips) ==
  /\ dl[d].pc = "fetch"
  /\ \/ /\ \E z \in zips :
             dl' = [dl EXCEPT ![d].pc = "verify", ![d].zip = z, ![d].fetched = z,
                              ![d].expected =
                                 ExpectedChecksum(dl[d].checksum, dl[d].sessionKey)]
        /\ UNCHANGED bundles
     \/ /\ dl' = [dl EXCEPT ![d] = Caught(dl[d], "download")]
        /\ bundles' = setBundle(bundles, dl[d].id, "error")
  /\ UNCHANGED <<currentBundleId, nextBundleId, fallbackBundleId, fsVars, idSeq>>
  /\ UNCHANGED coordVars
  /\ Silent

\* the step after the checksum that goes on to extraction without decrypting
VerifyDoneSkipsDecrypt(d) ==
  /\ dl[d].pc = "verify"
  /\ IF ChecksumAccepted(dl[d])
     THEN /\ dl' = [dl EXCEPT
                      ![d].pc = "extract",
                      ![d].infoChecksum =
                         IF dl[d].expected # NoChecksum THEN dl[d].expected
                         ELSE calculateFileChecksum(dl[d].zip)]
          /\ UNCHANGED bundles
     ELSE /\ dl' = [dl EXCEPT ![d] = Caught(dl[d], "checksum")]
          /\ bundles' = setBundle(bundles, dl[d].id, "error")
  /\ UNCHANGED <<currentBundleId, nextBundleId, fallbackBundleId, fsVars, idSeq>>
  /\ UNCHANGED coordVars
  /\ Silent

\* downloadFile got a 3xx response with a Location header: it calls itself
\* with that URL and settles as the inner call settles
DownloadFileRedirected(d) ==
  /\ dl[d].pc = "fetch"
  /\ \E location \in Locations : dl' = [dl EXCEPT ![d].url = location]
  /\ UNCHANGED <<storeVars, fsVars, idSeq>>
  /\ UNCHANGED coordVars
  /\ Silent

\* downloadToBuffer, fetching a manifest entry, got a 3xx response with a
\* Location header: it calls itself with that URL
DownloadToBufferRedirected(d) ==
  /\ dl[d].pc = "manifest"
  /\ \E location \in Locations : dl' = [dl EXCEPT ![d].url = location]
  /\ UNCHANGED <<storeVars, fsVars, idSeq>>
  /\ UNCHANGED coordVars
  /\ Silent

\* checksum verified or calculated; await decryptFile, or extractZipSecurely
VerifyDone(d) ==
  /\ dl[d].pc = "verify"
  /\ IF ChecksumAccepted(dl[d])
     THEN /\ dl' = [dl EXCEPT
                      ![d].pc = IF dl[d].sessionKey # "" THEN "decrypt" ELSE "extract",
                      ![d].infoChecksum =
                         IF dl[d].expected # NoChecksum THEN dl[d].expected
                         ELSE calculateFileChecksum(dl[d].zip)]
          /\ UNCHANGED bundles
     ELSE /\ dl' = [dl EXCEPT ![d] = Caught(dl[d], "checksum")]
          /\ bundles' = setBundle(bundles, dl[d].id, "error")
  /\ UNCHANGED <<currentBundleId, nextBundleId, fallbackBundleId, fsVars, idSeq>>
  /\ UNCHANGED coordVars
  /\ Silent

\* decryptFile settled; await extractZipSecurely
DecryptDone(d) ==
  /\ dl[d].pc = "decrypt"
  /\ IF decryptFileOk(dl[d].zip, dl[d].sessionKey)
     THEN /\ dl' = [dl EXCEPT ![d].pc = "extract",
                              ![d].zip = decryptFile(dl[d].zip, dl[d].sessionKey)]
          /\ UNCHANGED bundles
     ELSE /\ dl' = [dl EXCEPT ![d] = Caught(dl[d], "decrypt")]
          /\ bundles' = setBundle(bundles, dl[d].id, "error")
  /\ UNCHANGED <<currentBundleId, nextBundleId, fallbackBundleId, fsVars, idSeq>>
  /\ UNCHANGED coordVars
  /\ Silent

\* extractZipSecurely settled; await unlink(zipPath)
ExtractDone(d) ==
  /\ dl[d].pc = "extract"
  /\ LET r == extractZipSecurely(Archive(dl[d].zip.arch), ExtractPathOf(dl[d].id),
                                 fsFiles)
     IN
     \/ /\ dl[d].zip.enc = "" /\ r.ok
        /\ fsFiles' = r.files
        /\ dl' = [dl EXCEPT ![d].pc = "unlink"]
        /\ UNCHANGED bundles
     \/ /\ dl[d].zip.enc = "" /\ ~r.ok
        /\ fsFiles' = r.files
        /\ dl' = [dl EXCEPT ![d] = Caught(dl[d], "zip-entry")]
        /\ bundles' = setBundle(bundles, dl[d].id, "error")
     \/ \* not a readable zip (still encrypted), or an I/O error
        /\ fsFiles' = fsFiles
        /\ dl' = [dl EXCEPT ![d] =
                    Caught([dl[d] EXCEPT !.faulted = (dl[d].zip.enc = "")], "zip-read")]
        /\ bundles' = setBundle(bundles, dl[d].id, "error")
  /\ UNCHANGED <<currentBundleId, nextBundleId, fallbackBundleId, fsDirs, idSeq>>
  /\ UNCHANGED coordVars
  /\ Silent

\* unlink settled; await downloadManifestFiles, or mark success and save
UnlinkDone(d) ==
  /\ dl[d].pc = "unlink"
  /\ \/ /\ Len(Manifest(dl[d].manifest)) > 0
        /\ dl' = [dl EXCEPT ![d].pc = "manifest", ![d].zip = NoZip]
        /\ UNCHANGED bundles
     \/ /\ Len(Manifest(dl[d].manifest)) = 0
        /\ dl' = [dl EXCEPT ![d] = MarkedSuccess([dl[d] EXCEPT !.zip = NoZip])]
        /\ bundles' = setBundle(bundles, dl[d].id, "success")
     \/ /\ dl' = [dl EXCEPT ![d] = Caught([dl[d] EXCEPT !.faulted = TRUE], "unlink")]
        /\ bundles' = setBundle(bundles, dl[d].id, "error")
  /\ UNCHANGED <<currentBundleId, nextBundleId, fallbackBundleId, fsVars, idSeq>>
  /\ UNCHANGED coordVars
  /\ Silent

\* downloadManifestFiles settled; mark success and save
ManifestDone(d) ==
  /\ dl[d].pc = "manifest"
  /\ LET manifest == Manifest(dl[d].manifest) IN
     \E resp \in [1..Len(manifest) -> Responses] :
       LET r == downloadManifestFiles(manifest, 1, ExtractPathOf(dl[d].id), resp,
                   [files |-> fsFiles, fetched |-> {}, error |-> ""])
       IN /\ fsFiles' = r.files
          /\ IF r.error = ""
             THEN /\ dl' = [dl EXCEPT ![d] =
                              MarkedSuccess([dl[d] EXCEPT !.mfetched = r.fetched])]
                  /\ bundles' = setBundle(bundles, dl[d].id, "success")
             ELSE /\ dl' = [dl EXCEPT ![d] =
                              Caught([dl[d] EXCEPT !.mfetched = r.fetched], r.error)]
                  /\ bundles' = setBundle(bundles, dl[d].id, "error")
  /\ UNCHANGED <<currentBundleId, nextBundleId, fallbackBundleId, fsDirs, idSeq>>
  /\ UNCHANGED coordVars
  /\ Silent

\* the save() after status success settled; return bundleInfo
SaveSuccessDone(d) ==
  /\ dl[d].pc = "saveSuccess"
  /\ \/ /\ dl' = [dl EXCEPT ![d].pc = "returned"]
        /\ UNCHANGED bundles
     \/ /\ dl' = [dl EXCEPT ![d] = Caught([dl[d] EXCEPT !.faulted = TRUE], "save")]
        /\ bundles' = setBundle(bundles, dl[d].id, "error")
  /\ UNCHANGED <<currentBundleId, nextBundleId, fallbackBundleId, fsVars, idSeq>>
  /\ UNCHANGED coordVars
  /\ Silent

\* the catch block's save() settled; await rm(bundlePath)
CatchSaveDone(d) ==
  /\ dl[d].pc = "catchSave"
  /\ \/ dl' = [dl EXCEPT ![d].pc = "rm"]
     \/ dl' = [dl EXCEPT ![d].pc = "thrown", ![d].thrown = "save",
                         ![d].faulted = TRUE]
  /\ UNCHANGED <<storeVars, fsVars, idSeq>>
  /\ UNCHANGED coordVars
  /\ Silent

\* rm settled; deleteBundle; await save(); a failed rm is ignored
RmDone(d) ==
  /\ dl[d].pc = "rm"
  /\ \/ /\ fsDirs' = fsDirs \ {dl[d].id}
        /\ fsFiles' = RemoveTree(fsFiles, getBundlePath(dl[d].id))
        /\ bundles' = CleanupRegistry(bundles, dl[d].id)
        /\ dl' = [dl EXCEPT ![d].pc = "cleanupSave", ![d].zip = NoZip]
     \/ /\ dl' = [dl EXCEPT ![d].pc = "thrown", ![d].thrown = dl[d].error,
                            ![d].faulted = TRUE]
        /\ UNCHANGED <<bundles, fsVars>>
  /\ UNCHANGED <<currentBundleId, nextBundleId, fallbackBundleId, idSeq>>
  /\ UNCHANGED coordVars
  /\ Silent

\* the cleanup's save() settled (a failure is ignored); throw error
CleanupSaveDone(d) ==
  /\ dl[d].pc = "cleanupSave"
  /\ \/ dl' = [dl EXCEPT ![d].pc = "thrown", ![d].thrown = dl[d].error]
     \/ dl' = [dl EXCEPT ![d].pc = "thrown", ![d].thrown = dl[d].error,
                         ![d].faulted = TRUE]
  /\ UNCHANGED <<storeVars, fsVars, idSeq>>
  /\ UNCHANGED coordVars
  /\ Silent

\* the caller has taken the call's result or error
DownloadBundleSettled(d) ==
  /\ dl[d].pc \in {"returned", "thrown"}
  /\ dl' = [dl EXCEPT ![d] = IdleCall]
  /\ UNCHANGED <<storeVars, fsVars, idSeq>>



DownloadStep(d) ==
  \/ MkdirDone(d) \/ SaveInitialDone(d) \/ VerifyDone(d) \/ DecryptDone(d)
  \/ ExtractDone(d) \/ UnlinkDone(d) \/ ManifestDone(d) \/ SaveSuccessDone(d)
  \/ CatchSaveDone(d) \/ RmDone(d) \/ CleanupSaveDone(d)

(***************************************************************************)
(* BundleManager, DelayManager (not part of the sources at hand: after      *)
(* the specification's operation table, sections 4.D and 4.E)               *)
(***************************************************************************)
\* set(id) and next(id) require a bundle with status success
CanPromote(id) == id \in BundleIds /\ bundles[id] = "success"

\* set(id): the current bundle becomes the fallback, id becomes current
BundleManagerSet(id) ==
  /\ fallbackBundleId' =
        IF currentBundleId # id THEN currentBundleId ELSE fallbackBundleId
  /\ currentBundleId' = id

\* applyPendingUpdate(): set(nextBundleId), then clear nextBundleId
CanApplyPending == nextBundleId # NULL /\ CanPromote(nextBundleId)

\* markBundleSuccessful(), autoDeletePrevious on: the fallback's files and
\* registry entry are deleted (the builtin bundle has neither) and the
\* fallback pointer is cleared
markBundleSuccessful ==
  /\ IF fallbackBundleId \in BundleIds
     THEN /\ bundles' = deleteBundle(bundles, fallbackBundleId)
          /\ fsDirs' = fsDirs \ {fallbackBundleId}
          /\ fsFiles' = RemoveTree(fsFiles, getBundlePath(fallbackBundleId))
     ELSE UNCHANGED <<bundles, fsVars>>
  /\ fallbackBundleId' = NULL
  /\ UNCHANGED <<currentBundleId, nextBundleId>>

\* reset(toBuiltin): current := builtin, or a bundle with status success if
\* there is one; nextBundleId is cleared; the fallback never equals current
ResetTargets(toBuiltin) ==
  IF toBuiltin \/ \A id \in BundleIds : bundles[id] # "success"
  THEN {BUILTIN_BUNDLE_ID}
  ELSE {id \in BundleIds : bundles[id] = "success"}

BundleManagerReset(target) ==
  /\ currentBundleId' = target
  /\ nextBundleId' = NULL
  /\ fallbackBundleId' = IF fallbackBundleId = target THEN NULL ELSE fallbackBundleId
  /\ UNCHANGED bundles

\* areConditionsSatisfied(): every armed condition is met
areConditionsSatisfied == delay = "none" \/ (delay = "background" /\ inBackground)

(***************************************************************************)
(* StatsManager                                                             *)
(***************************************************************************)
\* what a telemetry send meets: statistics switched off (statsUrl is
\* empty), a 2xx answer, or a request that fails: no connection, the
\* timeout's abort, a status that is not 2xx, a statsUrl that is no URL
StatsRuns == {"off", "ok", "transport", "timeout", "status", "url"}

\* the runs that the specifications about other things than telemetry draw
FewRuns == {"ok", "timeout"}

\* makeRequest(payload): resolves when the response is ok, throws otherwise
makeRequest(run) == IF run = "ok" THEN "resolved" ELSE "rejected"

sendEventUncaught(run) ==
  IF run = "off" THEN "resolved" ELSE makeRequest(run)

\* sendEvent(payload): returns at once when disabled; whatever makeRequest
\* throws is caught and logged
sendEvent(run) ==
  IF run = "off" THEN "resolved"
  ELSE IF makeRequest(run) = "rejected" THEN "resolved" ELSE "resolved"

(***************************************************************************)
(* ElectronUpdater: timers and reload                                       *)
(***************************************************************************)
NoTimer == "null"
NoInterval == 0
InitCalls == {1, 2}
BlurTasks == {11, 12}     \* the task started by the k-th blur listener: 10 + k
ApplyTasks == InitCalls \cup BlurTasks

\* the options of DEFAULT_CONFIG that the model varies
DEFAULT_CONFIG ==
  [autoUpdate |-> TRUE, periodCheckDelay |-> 0, directUpdate |-> "false",
   disableJSLogging |-> FALSE, defaultChannel |-> "",
   updateUrl |-> "https://plugin.capgo.app/updates",
   channelUrl |-> "https://plugin.capgo.app/channel_self",
   statsUrl |-> "https://plugin.capgo.app/stats",
   appId |-> "",
   allowModifyUrl |-> FALSE, allowModifyAppId |-> FALSE,
   persistModifyUrl |-> FALSE]

\* the settings that setUpdateUrl, setStatsUrl, setChannelUrl and setAppId
\* change
Settings == {"updateUrl", "statsUrl", "channelUrl", "appId"}

\* the Store holds none of them (undefined)
NoSettings == [k \in Settings |-> NULL]

\* no setter in progress
IdleSetter == [pc |-> "idle", call |-> NULL]

\* `CapacitorUpdater/${pluginVersion} (${appId || 'missing-app-id'})
\* electron/${os.release()}`
UserAgentOf(appId) ==
  "CapacitorUpdater/" \o PLUGIN_VERSION \o " ("
    \o (IF appId = "" THEN "missing-app-id" ELSE appId) \o ") electron/" \o OsRelease

\* StatsManager and ChannelManager are not constructed yet
NoClients ==
  [statsUrl |-> NULL, enabled |-> FALSE, statsAppId |-> NULL,
   channelUrl |-> NULL, channelAppId |-> NULL,
   statsUserAgent |-> NULL, channelUserAgent |-> NULL]

\* new ChannelManager(..., channelUrl, appId, ...) and new StatsManager(...,
\* statsUrl, appId, ...): the stats client is enabled unless its URL is empty
ClientsOf(cfg) ==
  [statsUrl |-> cfg.statsUrl, enabled |-> cfg.statsUrl # "", statsAppId |-> cfg.appId,
   channelUrl |-> cfg.channelUrl, channelAppId |-> cfg.appId,
   statsUserAgent |-> UserAgentOf(cfg.appId),
   channelUserAgent |-> UserAgentOf(cfg.appId)]

\* the User-Agent header of a request: StatsManager.makeRequest and
\* ChannelManager.makeRequest send this.userAgent, getLatest sends
\* buildUserAgent()
StatsUserAgent == clients.statsUserAgent
ChannelUserAgent == clients.channelUserAgent
buildUserAgent == UserAgentOf(config.appId)

\* if (saved) of a value read from the Store
Truthy(v) == v # NULL /\ v # ""

\* initialize: the persisted URLs and appId laid over the configuration
\* when persistModifyUrl is set
ApplyPersisted(cfg, saved) ==
  IF cfg.persistModifyUrl
  THEN [cfg EXCEPT
          !.updateUrl = IF Truthy(saved.updateUrl) THEN saved.updateUrl ELSE @,
          !.statsUrl = IF saved.statsUrl # NULL THEN saved.statsUrl ELSE @,
          !.channelUrl = IF Truthy(saved.channelUrl) THEN saved.channelUrl ELSE @,
          !.appId = IF Truthy(saved.appId) THEN saved.appId ELSE @]
  ELSE cfg
NothingBuilt == [stores |-> 0, components |-> 0, blur |-> 0, focus |-> 0, quit |-> 0]

IdleApply == [pc |-> "idle", hasNext |-> FALSE]
\* the checkForUpdates call
IdleCheck == [pc |-> "idle", bundle |-> NULL]

\* no channel method in progress
IdleChannel ==
  [pc |-> "idle", call |-> NULL, arg |-> NULL, trigger |-> FALSE, status |-> NULL]

\* the notifyAppReady call: bundle is the bundle that current() answered,
\* cancelled whether its clearTimeout met a timer that had not fired
IdleNotify == [pc |-> "idle", bundle |-> NULL, cancelled |-> FALSE]

\* the watchdog callbacks that have started and not finished
RECURSIVE CountCallbacks(_, _)
CountCallbacks(running, ids) ==
  IF ids = {} THEN 0
  ELSE LET id == CHOOSE x \in ids : TRUE
       IN running[id] + CountCallbacks(running, ids \ {id})

RunningCallbacks == CountCallbacks(wdog, DOMAIN wdog)
NoCallbacks == [id \in BundleIds \cup {BUILTIN_BUNDLE_ID} |-> 0]

\* the watchdog timers that are set and have neither fired nor been cleared
PendingWatchdogs == orphanTimers + (IF appReadyTimeout = "pending" THEN 1 ELSE 0)

\* the interval timers active after clearInterval(handle)
ClearTimer(pending, handle) == pending \ {handle}

\* reload() up to its await of loadFile: reads the current bundle path,
\* appReadyReceived = false, appReadyTimeout = setTimeout(...) over whatever
\* the field held, emit appReloaded, loadFile(bundlePath)
reload(limit) ==
  /\ mainWindow
  /\ PendingWatchdogs + RunningCallbacks < limit
  /\ appReadyReceived' = FALSE
  /\ orphanTimers' = orphanTimers + (IF appReadyTimeout = "pending" THEN 1 ELSE 0)
  /\ appReadyTimeout' = "pending"
  /\ emitted' = Event("appReloaded", NULL)
  /\ sent' = Nothing
  /\ answered' = NULL
  /\ loaded' = currentBundleId

\* a watchdog timer fires, the one appReadyTimeout refers to or an orphan:
\* the callback returns at once when appReadyReceived, else it runs up to
\* its await of sendUpdateFailed (the bundle is the one current() answers)
WatchdogFire ==
  /\ \/ /\ appReadyTimeout = "pending"
        /\ appReadyTimeout' = "fired"
        /\ UNCHANGED orphanTimers
     \/ /\ orphanTimers > 0
        /\ orphanTimers' = orphanTimers - 1
        /\ UNCHANGED appReadyTimeout
  /\ wdog' = IF appReadyReceived THEN wdog
              ELSE [wdog EXCEPT ![currentBundleId] = @ + 1]
  /\ Output(Nothing,
            IF appReadyReceived THEN Nothing ELSE Event("set_fail", currentBundleId),
            NoResult)
  /\ answered' = NULL
  /\ UNCHANGED <<storeVars, fsVars, dlVars, fieldVars, delayVars>>
  /\ UNCHANGED <<appReadyReceived, loaded>>
  /\ UNCHANGED <<initCall, apply, chk, usr, apiVars>>

WatchdogReportNoLoad(id, run, met) ==
  /\ wdog[id] > 0
  /\ wdog' = [wdog EXCEPT ![id] = @ - 1]
  /\ answered' = met
  /\ Output(Event("updateFailed", id), Nothing, NoResult)
  /\ UNCHANGED <<storeVars, fsVars, dlVars, fieldVars, delayVars>>
  /\ UNCHANGED <<appReadyReceived, appReadyTimeout, orphanTimers, loaded>>
  /\ UNCHANGED <<initCall, apply, chk, usr, apiVars>>

\* sendUpdateFailed settled, the request having met run: emit
\* updateFailed, load the path of the current bundle; had the send thrown,
\* the callback would end there
WatchdogReport(id, run, met) ==
  /\ wdog[id] > 0
  /\ wdog' = [wdog EXCEPT ![id] = @ - 1]
  /\ answered' = met
  /\ IF sendEvent(run) = "resolved"
     THEN /\ Output(Event("updateFailed", id), Nothing, NoResult)
          /\ loaded' = currentBundleId
     ELSE /\ Output(Nothing, Nothing, NoResult)
          /\ UNCHANGED loaded
  /\ UNCHANGED <<storeVars, fsVars, dlVars, fieldVars, delayVars>>
  /\ UNCHANGED <<appReadyReceived, appReadyTimeout, orphanTimers>>
  /\ UNCHANGED <<initCall, apply, chk, usr, apiVars>>

notifyAppReadyKeepsTimer ==
  /\ initialized
  /\ ntf.pc = "idle"
  /\ appReadyReceived' = TRUE
  /\ markBundleSuccessful
  /\ Output(Nothing, Event("set", currentBundleId), NoResult)
  /\ answered' = NULL
  /\ ntf' = [pc |-> "stats", bundle |-> currentBundleId,
             cancelled |-> appReadyTimeout = "pending"]
  /\ UNCHANGED <<dlVars, fieldVars, delayVars, taskVars, orphanTimers, loaded>>
  /\ UNCHANGED <<appReadyTimeout, channel, chan, urlVars>>

\* notifyAppReady() up to its await of sendUpdateSuccess:
\* clearTimeout(appReadyTimeout), appReadyReceived = true,
\* markBundleSuccessful(), current()
notifyAppReady ==
  /\ initialized
  /\ ntf.pc = "idle"
  /\ appReadyTimeout' = NoTimer
  /\ appReadyReceived' = TRUE
  /\ markBundleSuccessful
  /\ Output(Nothing, Event("set", currentBundleId), NoResult)
  /\ answered' = NULL
  /\ ntf' = [pc |-> "stats", bundle |-> currentBundleId,
             cancelled |-> appReadyTimeout = "pending"]
  /\ UNCHANGED <<dlVars, fieldVars, delayVars, taskVars, orphanTimers, loaded>>
  /\ UNCHANGED <<channel, chan, urlVars>>

\* sendUpdateSuccess settled, the request having met run: emit appReady,
\* return {bundle}; had the send thrown, the call would reject
NotifyAppReadyDone(run, met) ==
  /\ ntf.pc = "stats"
  /\ answered' = met
  /\ Output(IF sendEvent(run) = "resolved"
            THEN Event("appReady", ntf.bundle) ELSE Nothing,
            Nothing,
            Result("notifyAppReady",
                   IF sendEvent(run) = "resolved" THEN "returned" ELSE "rejected"))
  /\ ntf' = IdleNotify
  /\ UNCHANGED <<storeVars, fsVars, dlVars, fieldVars, reloadVars, delayVars, taskVars>>
  /\ UNCHANGED <<channel, chan, urlVars>>

(***************************************************************************)
(* ElectronUpdater: next, set, reset, reload called by the application      *)
(***************************************************************************)
\* next({id}): bundleManager.next(id); rejects unless the bundle is success
next(id) ==
  /\ initialized
  /\ CanPromote(id)
  /\ nextBundleId' = id
  /\ UNCHANGED <<bundles, currentBundleId, fallbackBundleId>>
  /\ UNCHANGED <<fsVars, dlVars, coordVars>>
  /\ UNCHANGED apiVars
  /\ Silent

\* set({id}) up to its second await: bundleManager.set(id) has settled
set(id) ==
  /\ initialized
  /\ usr = "idle"
  /\ CanPromote(id)
  /\ BundleManagerSet(id)
  /\ usr' = "reload"
  /\ UNCHANGED <<bundles, nextBundleId, fsVars, dlVars, fieldVars, reloadVars, delayVars>>
  /\ UNCHANGED <<initCall, apply, wdog, chk>>
  /\ UNCHANGED apiVars
  /\ Silent

\* reset(options) up to its second await: bundleManager.reset has settled
reset(toBuiltin) ==
  /\ initialized
  /\ usr = "idle"
  /\ \E target \in ResetTargets(toBuiltin) : BundleManagerReset(target)
  /\ usr' = "reload"
  /\ UNCHANGED <<fsVars, dlVars, fieldVars, reloadVars, delayVars>>
  /\ UNCHANGED <<initCall, apply, wdog, chk>>
  /\ UNCHANGED apiVars
  /\ Silent

\* the reload() that ends set() and reset()
SetReload(limit) ==
  /\ usr = "reload"
  /\ reload(limit)
  /\ settled' = NoResult
  /\ usr' = "idle"
  /\ UNCHANGED <<storeVars, fsVars, dlVars, fieldVars, delayVars>>
  /\ UNCHANGED <<initCall, apply, wdog, chk>>
  /\ UNCHANGED apiVars

\* reload() called by the application
UserReload(limit) ==
  /\ initialized
  /\ reload(limit)
  /\ settled' = NoResult
  /\ UNCHANGED <<storeVars, fsVars, dlVars, fieldVars, delayVars, taskVars>>
  /\ UNCHANGED apiVars

(***************************************************************************)
(* ElectronUpdater: window listeners, delay conditions, pending update      *)
(***************************************************************************)
\* checkAndApplyPendingUpdate() up to its first await: getNextBundle()
StartedApply == [pc |-> "getNext", hasNext |-> nextBundleId # NULL]

\* where a finished task rests: initialize awaits its own, the listeners'
\* tasks are not awaited by anyone
Finished(t) == [IdleApply EXCEPT !.pc = IF t \in InitCalls THEN "finished" ELSE "idle"]

\* the window lost focus: every registered blur listener runs
WindowBlur ==
  /\ built.blur > 0
  /\ \A t \in BlurTasks : apply[t].pc = "idle"
  /\ inBackground' = TRUE
  /\ apply' = [t \in ApplyTasks |->
                 IF t \in BlurTasks /\ t - 10 <= built.blur
                 THEN StartedApply ELSE apply[t]]
  /\ UNCHANGED <<storeVars, fsVars, dlVars, fieldVars, reloadVars, delay>>
  /\ UNCHANGED <<initCall, wdog, chk, usr>>
  /\ UNCHANGED apiVars
  /\ Silent

\* the window gained focus: every registered focus listener runs
WindowFocus ==
  /\ built.focus > 0
  /\ inBackground
  /\ inBackground' = FALSE
  /\ UNCHANGED <<storeVars, fsVars, dlVars, fieldVars, reloadVars, delay, taskVars>>
  /\ UNCHANGED apiVars
  /\ Silent

\* setMultiDelay({background}) / cancelDelay()
setMultiDelay ==
  /\ initialized
  /\ delay = "none"
  /\ delay' = "background"
  /\ UNCHANGED <<storeVars, fsVars, dlVars, fieldVars, reloadVars, inBackground, taskVars>>
  /\ UNCHANGED apiVars
  /\ Silent

cancelDelay ==
  /\ initialized
  /\ delay # "none"
  /\ delay' = "none"
  /\ UNCHANGED <<storeVars, fsVars, dlVars, fieldVars, reloadVars, inBackground, taskVars>>
  /\ UNCHANGED apiVars
  /\ Silent

ApplyGotNextUngated(t) ==
  /\ apply[t].pc = "getNext"
  /\ IF apply[t].hasNext /\ CanApplyPending
     THEN /\ BundleManagerSet(nextBundleId)
          /\ nextBundleId' = NULL
          /\ apply' = [apply EXCEPT ![t].pc = "save"]
     ELSE /\ apply' = [apply EXCEPT ![t] = Finished(t)]
          /\ UNCHANGED <<currentBundleId, nextBundleId, fallbackBundleId>>
  /\ UNCHANGED <<bundles, fsVars, dlVars, fieldVars, reloadVars, delayVars>>
  /\ UNCHANGED <<initCall, wdog, chk, usr>>
  /\ UNCHANGED apiVars
  /\ Silent

\* getNextBundle() settled: return when there is none or the gate is
\* closed; otherwise applyPendingUpdate(), and when it applied,
\* resetKillState() and await storage.save()
ApplyGotNext(t) ==
  /\ apply[t].pc = "getNext"
  /\ IF apply[t].hasNext /\ areConditionsSatisfied /\ CanApplyPending
     THEN /\ BundleManagerSet(nextBundleId)
          /\ nextBundleId' = NULL
          /\ apply' = [apply EXCEPT ![t].pc = "save"]
     ELSE /\ apply' = [apply EXCEPT ![t] = Finished(t)]
          /\ UNCHANGED <<currentBundleId, nextBundleId, fallbackBundleId>>
  /\ UNCHANGED <<bundles, fsVars, dlVars, fieldVars, reloadVars, delayVars>>
  /\ UNCHANGED <<initCall, wdog, chk, usr>>
  /\ UNCHANGED apiVars
  /\ Silent

\* storage.save() settled: emit appReloaded and reload(); a failed save
\* rejects the task
ApplySaved(t, limit) ==
  /\ apply[t].pc = "save"
  /\ \/ /\ reload(limit)
        /\ settled' = NoResult
        /\ apply' = [apply EXCEPT ![t].pc = "reload"]
        /\ UNCHANGED initCall
     \/ /\ apply' = [apply EXCEPT ![t] = IdleApply]
        /\ initCall' = [i \in InitCalls |-> IF i = t THEN "failed" ELSE initCall[i]]
        /\ UNCHANGED reloadVars
        /\ Silent
  /\ UNCHANGED <<storeVars, fsVars, dlVars, fieldVars, delayVars>>
  /\ UNCHANGED <<wdog, chk, usr, apiVars>>

\* loadFile settled: the task is over
ApplyReloaded(t) ==
  /\ apply[t].pc = "reload"
  /\ apply' = [apply EXCEPT ![t] = Finished(t)]
  /\ UNCHANGED <<storeVars, fsVars, dlVars, fieldVars, reloadVars, delayVars>>
  /\ UNCHANGED <<initCall, wdog, chk, usr>>
  /\ UNCHANGED apiVars
  /\ Silent

(***************************************************************************)
(* ElectronUpdater.initialize                                               *)
(***************************************************************************)
MIN_PERIOD_CHECK_DELAY == 600

\* initialize() up to its first await: the guard, this.mainWindow,
\* this.storage = new StorageManager(), storage.initialize()
InitializeStart(i) ==
  /\ initCall[i] = "idle"
  /\ IF initialized
     THEN /\ initCall' = [initCall EXCEPT ![i] = "done"]
          /\ UNCHANGED <<mainWindow, built>>
     ELSE /\ initCall' = [initCall EXCEPT ![i] = "storage"]
          /\ mainWindow' = TRUE
          /\ built' = [built EXCEPT !.stores = @ + 1]
  /\ UNCHANGED <<storeVars, fsVars, dlVars, reloadVars, delayVars>>
  /\ UNCHANGED <<config, initialized, periodCheckInterval, intervals>>
  /\ UNCHANGED <<apply, wdog, chk, usr>>
  /\ UNCHANGED apiVars
  /\ Silent

\* storage.initialize() settled: the components are built,
\* setupWindowListeners(), checkAndApplyPendingUpdate() up to its await
InitializeStorageReady(i) ==
  /\ initCall[i] = "storage"
  /\ built' = [built EXCEPT !.components = @ + 1, !.blur = @ + 1, !.focus = @ + 1]
  /\ apply' = [apply EXCEPT ![i] = StartedApply]
  /\ initCall' = [initCall EXCEPT ![i] = "pending"]
  /\ stored' = persisted
  /\ config' = ApplyPersisted(config, persisted)
  /\ clients' = ClientsOf(config')
  /\ UNCHANGED <<storeVars, fsVars, dlVars, reloadVars, delayVars>>
  /\ UNCHANGED <<initialized, mainWindow, periodCheckInterval, intervals>>
  /\ UNCHANGED <<wdog, chk, usr>>
  /\ UNCHANGED <<ntf, channel, chan, setter, persisted>>
  /\ Silent

\* startPeriodicChecks(): the interval of an earlier call is cleared; the
\* handle of the interval that call i creates is i
PeriodicChecksWantedAnyDelay == config.autoUpdate

PeriodicChecksWanted ==
  config.periodCheckDelay >= MIN_PERIOD_CHECK_DELAY /\ config.autoUpdate

startPeriodicChecks(i) ==
  LET cleared == IF periodCheckInterval # NoInterval
                 THEN ClearTimer(intervals, periodCheckInterval) ELSE intervals
  IN /\ intervals' = IF PeriodicChecksWanted THEN cleared \cup {i} ELSE cleared
     /\ periodCheckInterval' = IF PeriodicChecksWanted THEN i ELSE periodCheckInterval

\* checkAndApplyPendingUpdate() settled: startPeriodicChecks(),
\* app.on('before-quit'), this.initialized = true
InitializeFinish(i) ==
  /\ initCall[i] = "pending"
  /\ apply[i].pc = "finished"
  /\ startPeriodicChecks(i)
  /\ built' = [built EXCEPT !.quit = @ + 1]
  /\ initialized' = TRUE
  /\ initCall' = [initCall EXCEPT ![i] = "done"]
  /\ apply' = [apply EXCEPT ![i] = IdleApply]
  /\ UNCHANGED <<storeVars, fsVars, dlVars, reloadVars, delayVars>>
  /\ UNCHANGED <<config, mainWindow, wdog, chk, usr>>
  /\ UNCHANGED apiVars
  /\ Silent

(***************************************************************************)
(* ElectronUpdater.checkForUpdates, download                                *)
(***************************************************************************)
\* every mode but false applied at once
shouldDirectUpdateAnyMode == config.directUpdate # "false"

shouldDirectUpdate == config.directUpdate \in {"true", "always"}

\* what getLatest() does: it answers no new version, an update, a breaking
\* update or an error, or it throws (current() or new URL(updateUrl), both
\* outside its try block)
LatestKinds == {"none", "update", "breaking", "error", "throws"}

\* the outcomes of getLatest() one by one: it throws, or it answers a
\* LatestVersion, of which checkForUpdates reads the error, whether url and
\* version are there and not empty, and breaking; the answer made in
\* getLatest's catch block has an error and neither url nor version
LatestVersion(name, error, url, version, breaking) ==
  [name |-> name, thrown |-> FALSE, error |-> error, url |-> url,
   version |-> version, breaking |-> breaking]

GetLatestOutcomes ==
  {[name |-> "throws", thrown |-> TRUE, error |-> NULL, url |-> FALSE,
    version |-> FALSE, breaking |-> FALSE],
   LatestVersion("upToDate", "no_new_version_available", FALSE, TRUE, FALSE),
   LatestVersion("upToDateBreaking", "no_new_version_available", TRUE, TRUE, TRUE),
   LatestVersion("requestFailed", "HTTP 500", FALSE, FALSE, FALSE),
   LatestVersion("update", NULL, TRUE, TRUE, FALSE),
   LatestVersion("breakingUpdate", NULL, TRUE, TRUE, TRUE),
   LatestVersion("breakingNoUrl", NULL, FALSE, TRUE, TRUE),
   LatestVersion("noUrl", NULL, FALSE, TRUE, FALSE),
   LatestVersion("noVersion", NULL, TRUE, FALSE, FALSE)}

\* the outcome read without its breaking field
LatestKindNotBreaking(latest) ==
  IF latest.thrown THEN "throws"
  ELSE IF latest.error = "no_new_version_available" THEN "none"
  ELSE IF latest.url /\ latest.version THEN "update"
  ELSE "error"

\* what checkForUpdates makes of the outcome
LatestKind(latest) ==
  IF latest.thrown THEN "throws"
  ELSE IF latest.error = "no_new_version_available" THEN "none"
  ELSE IF latest.url /\ latest.version
       THEN IF latest.breaking THEN "breaking" ELSE "update"
  ELSE "error"

\* downloadBundle returned its bundleInfo (it threw otherwise)
DownloadBundleResolved(frame) == frame.pc = "returned"

checkForUpdatesUncaught(threw) == IF threw THEN "rejected" ELSE "ok"

\* how checkForUpdates() settles: what is thrown inside its try block is
\* caught, and logged unless disableJSLogging
checkForUpdates(threw) ==
  IF ~threw THEN "ok"
  ELSE IF config.disableJSLogging THEN "caught" ELSE "logged"

CheckOver(threw) == Result("checkForUpdates", checkForUpdates(threw))

\* the interval fires: checkForUpdates() up to its await of getLatest()
IntervalTick(h) ==
  /\ h \in intervals
  /\ config.autoUpdate
  /\ chk.pc = "idle"
  /\ chk' = [chk EXCEPT !.pc = "getLatest"]
  /\ UNCHANGED <<storeVars, fsVars, dlVars, fieldVars, reloadVars, delayVars>>
  /\ UNCHANGED <<initCall, apply, wdog, usr>>
  /\ UNCHANGED apiVars
  /\ Silent

\* getLatest() settled without an update to download: emit noNeedUpdate
\* with the current bundle, or updateAvailable, breakingAvailable and
\* majorAvailable, or nothing; the check is over
GetLatestNoDownload ==
  /\ chk.pc = "getLatest"
  /\ \E latest \in GetLatestOutcomes :
        LET kind == LatestKind(latest) IN
        /\ kind \in LatestKinds \ {"update"}
        /\ Output(CASE kind = "none" -> Event("noNeedUpdate", currentBundleId)
                    [] kind = "breaking" ->
                         EventAfter(<<"updateAvailable", "breakingAvailable">>,
                                    "majorAvailable", NULL)
                    [] OTHER -> Nothing,
                  Nothing,
                  CheckOver(kind = "throws"))
        /\ answered' = latest.name
  /\ chk' = IdleCheck
  /\ UNCHANGED <<storeVars, fsVars, dlVars, fieldVars, reloadVars, delayVars>>
  /\ UNCHANGED <<initCall, apply, wdog, usr, apiVars>>

\* getLatest() settled with an update: emit updateAvailable, download()
\* up to its await of downloadBundle
GetLatestDownload(opts) ==
  /\ chk.pc = "getLatest"
  /\ DownloadBundleStart(1, opts, MaxDownloads)
  /\ chk' = [chk EXCEPT !.pc = "download"]
  /\ Output(Event("updateAvailable", NULL), Nothing, NoResult)
  /\ \E latest \in GetLatestOutcomes :
        /\ LatestKind(latest) = "update"
        /\ answered' = latest.name
  /\ UNCHANGED <<fieldVars, reloadVars, delayVars>>
  /\ UNCHANGED <<initCall, apply, wdog, usr, apiVars>>

\* downloadBundle settled: await sendDownloadComplete, or sendDownloadFailed
DownloadSettled ==
  /\ chk.pc = "download"
  /\ DownloadBundleSettled(1)
  /\ chk' = IF DownloadBundleResolved(dl[1])
            THEN [pc |-> "statsComplete", bundle |-> dl[1].id]
            ELSE [pc |-> "statsFailed", bundle |-> NULL]
  /\ Output(Nothing,
            IF DownloadBundleResolved(dl[1])
            THEN Event("download_complete", dl[1].id)
            ELSE Event("download_fail", NULL),
            NoResult)
  /\ answered' = NULL
  /\ UNCHANGED <<fieldVars, reloadVars, delayVars>>
  /\ UNCHANGED <<initCall, apply, wdog, usr, apiVars>>

\* download() ending quietly after a failed downloadBundle
DownloadFailedReportedSilent(run, met) ==
  /\ chk.pc = "statsFailed"
  /\ chk' = IdleCheck
  /\ answered' = met
  /\ Output(Nothing, Nothing, CheckOver(FALSE))
  /\ UNCHANGED <<storeVars, fsVars, dlVars, fieldVars, reloadVars, delayVars>>
  /\ UNCHANGED <<initCall, apply, wdog, usr, apiVars>>

\* sendDownloadFailed settled, the request having met run: emit
\* downloadFailed, rethrow; checkForUpdates catches; had the send thrown,
\* that error would be the one caught
DownloadFailedReported(run, met) ==
  /\ chk.pc = "statsFailed"
  /\ chk' = IdleCheck
  /\ answered' = met
  /\ Output(IF sendEvent(run) = "resolved"
            THEN Event("downloadFailed", NULL) ELSE Nothing,
            Nothing,
            CheckOver(TRUE))
  /\ UNCHANGED <<storeVars, fsVars, dlVars, fieldVars, reloadVars, delayVars>>
  /\ UNCHANGED <<initCall, apply, wdog, usr, apiVars>>

\* sendDownloadComplete settled, the request having met run: download()
\* returns; emit downloadComplete; set({id}) up to its second await, or
\* next({id}); a rejection is caught; had the send thrown, download() would
\* catch it and sendDownloadFailed
DownloadCompleteReported(run, met) ==
  /\ chk.pc = "statsComplete"
  /\ answered' = met
  /\ IF sendEvent(run) # "resolved"
     THEN /\ chk' = [pc |-> "statsFailed", bundle |-> NULL]
          /\ Output(Nothing, Event("download_fail", NULL), NoResult)
          /\ UNCHANGED <<currentBundleId, nextBundleId, fallbackBundleId>>
     ELSE IF ~CanPromote(chk.bundle)
     THEN /\ chk' = IdleCheck
          /\ Output(Event("downloadComplete", chk.bundle), Nothing, CheckOver(TRUE))
          /\ UNCHANGED <<currentBundleId, nextBundleId, fallbackBundleId>>
     ELSE IF shouldDirectUpdate
     THEN /\ BundleManagerSet(chk.bundle)
          /\ chk' = [chk EXCEPT !.pc = "reload"]
          /\ Output(Event("downloadComplete", chk.bundle), Nothing, NoResult)
          /\ UNCHANGED nextBundleId
     ELSE /\ nextBundleId' = chk.bundle
          /\ chk' = IdleCheck
          /\ Output(Event("downloadComplete", chk.bundle), Nothing, CheckOver(FALSE))
          /\ UNCHANGED <<currentBundleId, fallbackBundleId>>
  /\ UNCHANGED <<bundles, fsVars, dlVars, fieldVars, reloadVars, delayVars>>
  /\ UNCHANGED <<initCall, apply, wdog, usr, apiVars>>

\* the reload() that ends set({id}) in checkForUpdates
CheckReload(limit) ==
  /\ chk.pc = "reload"
  /\ reload(limit)
  /\ settled' = CheckOver(FALSE)
  /\ chk' = IdleCheck
  /\ UNCHANGED <<storeVars, fsVars, dlVars, fieldVars, delayVars>>
  /\ UNCHANGED <<initCall, apply, wdog, usr>>
  /\ UNCHANGED apiVars

(***************************************************************************)
(* ChannelManager and the channel methods of ElectronUpdater               *)
(***************************************************************************)
ChannelNames == {"beta", "production"}

\* what makeRequest can meet before it has a body to return: new URL()
\* throws, fetch rejects, the timer aborts the request, the status is not
\* 2xx, the body is not JSON
ChannelFailures == {"url", "connect", "timeout", "http", "parse"}

\* what makeRequest settles with: the failure it met, or else the fields of
\* the JSON body that the callers read; NULL is a field that is missing or
\* null, allow_set carries the JSON literal
ChannelReplies ==
  {r \in [failure : {NULL} \cup ChannelFailures,
          status : {NULL, "ok", "success", "error", "denied"},
          channel : {NULL} \cup ChannelNames,
          allow_set : {NULL, "true", "false"}] :
     r.failure # NULL => r.status = NULL /\ r.channel = NULL /\ r.allow_set = NULL}

\* the replies that differ in the failure and the status field only
StatusReplies == {r \in ChannelReplies : r.channel = NULL /\ r.allow_set = NULL}

RequestFailed(met) == met.failure # NULL

\* what the caller of makeRequest met: the failure, or the status field
\* of the body as it was sent
ReplyKind(met) ==
  IF RequestFailed(met) THEN met.failure
  ELSE IF met.status = NULL THEN "noStatus" ELSE met.status

\* String(response.status ?? 'ok')
StatusOf(response) == IF response.status = NULL THEN "ok" ELSE response.status

\* this.config.defaultChannel || undefined
defaultChannel == IF config.defaultChannel = "" THEN NULL ELSE config.defaultChannel

\* this.storage.getChannel() ?? this.defaultChannel
getEffectiveChannel == IF channel # NULL THEN channel ELSE defaultChannel

\* the value getChannel() resolves with, without the local channel in the
\* fallback
GetChannelResNoLocal(met) ==
  IF RequestFailed(met)
  THEN [channel |-> defaultChannel, allowSet |-> TRUE, status |-> "ok"]
  ELSE [channel |-> IF met.channel # NULL THEN met.channel ELSE getEffectiveChannel,
        allowSet |-> IF met.allow_set # NULL THEN met.allow_set = "true" ELSE TRUE,
        status |-> StatusOf(met)]

\* the value getChannel() resolves with
GetChannelRes(met) ==
  IF RequestFailed(met)
  THEN [channel |-> getEffectiveChannel, allowSet |-> TRUE, status |-> "ok"]
  ELSE [channel |-> IF met.channel # NULL THEN met.channel ELSE getEffectiveChannel,
        allowSet |-> IF met.allow_set # NULL THEN met.allow_set = "true" ELSE TRUE,
        status |-> StatusOf(met)]

\* a channel method called by the application, up to its await of
\* makeRequest
ChannelCall(name, arg, trigger) ==
  /\ initialized
  /\ chan.pc = "idle"
  /\ chan' = [pc |-> "request", call |-> name, arg |-> arg, trigger |-> trigger,
              status |-> NULL]
  /\ UNCHANGED <<storeVars, fsVars, dlVars, fieldVars, reloadVars, delayVars>>
  /\ UNCHANGED <<taskVars, ntf, channel, urlVars>>
  /\ Silent

setChannel(name, trigger) == ChannelCall("setChannel", name, trigger)

unsetChannel(trigger) == ChannelCall("unsetChannel", NULL, trigger)

getChannel == ChannelCall("getChannel", NULL, FALSE)

\* the end of the call: the wrapper starts checkForUpdates() without
\* awaiting it when triggerAutoUpdate and autoUpdate are set and the
\* ChannelManager's method did not reject (one check at a time in the
\* model: the call ends when none is running)
ChannelReturn(result, rejected) ==
  /\ (chan.trigger /\ config.autoUpdate /\ ~rejected) => chk.pc = "idle"
  /\ chk' = IF chan.trigger /\ config.autoUpdate /\ ~rejected
            THEN [chk EXCEPT !.pc = "getLatest"]
            ELSE chk
  /\ chan' = IdleChannel
  /\ Output(Nothing, Nothing, result)

\* setChannel: makeRequest settled; the channel is set in the Store when
\* the status reads ok or success, a failure becomes status error
SetChannelAnswered(met) ==
  /\ chan.pc = "request"
  /\ chan.call = "setChannel"
  /\ answered' = ReplyKind(met)
  /\ IF RequestFailed(met)
     THEN /\ ChannelReturn(Result("setChannel", "error"), FALSE)
          /\ UNCHANGED channel
     ELSE IF StatusOf(met) \in {"ok", "success"}
     THEN /\ channel' = chan.arg
          /\ chan' = [chan EXCEPT !.pc = "save", !.status = StatusOf(met)]
          /\ Output(Nothing, Nothing, NoResult)
          /\ UNCHANGED chk
     ELSE /\ ChannelReturn(Result("setChannel", StatusOf(met)), FALSE)
          /\ UNCHANGED channel
  /\ UNCHANGED <<storeVars, fsVars, dlVars, fieldVars, reloadVars, delayVars>>
  /\ UNCHANGED <<initCall, apply, wdog, usr, ntf, urlVars>>

\* setChannel: storage.save() settled; a failed save is caught and
\* becomes status error
SetChannelSaved(saved) ==
  /\ chan.pc = "save"
  /\ chan.call = "setChannel"
  /\ answered' = IF saved THEN "saved" ELSE "saveFailed"
  /\ ChannelReturn(Result("setChannel", IF saved THEN chan.status ELSE "error"), FALSE)
  /\ UNCHANGED <<storeVars, fsVars, dlVars, fieldVars, reloadVars, delayVars>>
  /\ UNCHANGED <<initCall, apply, wdog, usr, ntf, channel, urlVars>>

\* unsetChannel with a failed request passed on to the caller
UnsetChannelAnsweredUncaught(met) ==
  /\ chan.pc = "request"
  /\ chan.call = "unsetChannel"
  /\ answered' = ReplyKind(met)
  /\ IF RequestFailed(met)
     THEN /\ ChannelReturn(Result("unsetChannel", "rejected"), TRUE)
          /\ UNCHANGED channel
     ELSE /\ channel' = NULL
          /\ chan' = [chan EXCEPT !.pc = "save"]
          /\ Output(Nothing, Nothing, NoResult)
          /\ UNCHANGED chk
  /\ UNCHANGED <<storeVars, fsVars, dlVars, fieldVars, reloadVars, delayVars>>
  /\ UNCHANGED <<initCall, apply, wdog, usr, ntf, urlVars>>

\* unsetChannel: makeRequest settled, whatever it met is ignored; the
\* channel is cleared in the Store
UnsetChannelAnswered(met) ==
  /\ chan.pc = "request"
  /\ chan.call = "unsetChannel"
  /\ answered' = ReplyKind(met)
  /\ channel' = NULL
  /\ chan' = [chan EXCEPT !.pc = "save"]
  /\ Output(Nothing, Nothing, NoResult)
  /\ UNCHANGED <<storeVars, fsVars, dlVars, fieldVars, reloadVars, delayVars>>
  /\ UNCHANGED <<taskVars, ntf, urlVars>>

\* unsetChannel: storage.save() settled; a failed save rejects the call
UnsetChannelSaved(saved) ==
  /\ chan.pc = "save"
  /\ chan.call = "unsetChannel"
  /\ answered' = IF saved THEN "saved" ELSE "saveFailed"
  /\ ChannelReturn(Result("unsetChannel", IF saved THEN "returned" ELSE "rejected"),
                   ~saved)
  /\ UNCHANGED <<storeVars, fsVars, dlVars, fieldVars, reloadVars, delayVars>>
  /\ UNCHANGED <<initCall, apply, wdog, usr, ntf, channel, urlVars>>

\* getChannel: makeRequest settled
GetChannelAnswered(met) ==
  /\ chan.pc = "request"
  /\ chan.call = "getChannel"
  /\ answered' = ReplyKind(met)
  /\ ChannelReturn(Result("getChannel", GetChannelRes(met)), FALSE)
  /\ UNCHANGED <<storeVars, fsVars, dlVars, fieldVars, reloadVars, delayVars>>
  /\ UNCHANGED <<initCall, apply, wdog, usr, ntf, channel, urlVars>>

(***************************************************************************)
(* ElectronUpdater: setUpdateUrl, setStatsUrl, setChannelUrl, setAppId      *)
(***************************************************************************)
UrlValues == {"", "https://example.com/api"}
AppIds == {"", "com.example.app"}

\* the configuration flag that guards a setting
Allowed(k) == IF k = "appId" THEN config.allowModifyAppId ELSE config.allowModifyUrl

\* the setters of the clients that a setting has
ClientsWith(k, v) ==
  CASE k = "statsUrl" -> [clients EXCEPT !.statsUrl = v, !.enabled = v # ""]
    [] k = "channelUrl" -> [clients EXCEPT !.channelUrl = v]
    [] k = "appId" -> [clients EXCEPT !.channelAppId = v, !.statsAppId = v]
    [] OTHER -> clients

\* a setter without its check of the configuration flag
SetConfigValueUnchecked(name, k, v) ==
  /\ setter.pc = "idle"
  /\ initialized
  /\ config' = [config EXCEPT ![k] = v]
  /\ clients' = ClientsWith(k, v)
  /\ IF config.persistModifyUrl
     THEN /\ stored' = [stored EXCEPT ![k] = v]
          /\ setter' = [pc |-> "save", call |-> name]
          /\ Output(Nothing, Nothing, NoResult)
     ELSE /\ UNCHANGED <<stored, setter>>
          /\ Output(Nothing, Nothing, Result(name, "returned"))
  /\ answered' = NULL
  /\ UNCHANGED <<storeVars, fsVars, dlVars, reloadVars, delayVars, taskVars>>
  /\ UNCHANGED <<initialized, mainWindow, periodCheckInterval, intervals, built>>
  /\ UNCHANGED <<ntf, channel, chan, persisted>>

\* a setter up to its await of storage.save(), or to its end: it throws
\* when the configuration does not allow the change; else it sets the value
\* in the configuration and in the clients and, with persistModifyUrl, in
\* the Store
SetConfigValue(name, k, v) ==
  /\ setter.pc = "idle"
  /\ IF ~Allowed(k)
     THEN /\ Output(Nothing, Nothing, Result(name, "notAllowed"))
          /\ UNCHANGED <<config, clients, stored, setter>>
     ELSE /\ initialized
          /\ config' = [config EXCEPT ![k] = v]
          /\ clients' = ClientsWith(k, v)
          /\ IF config.persistModifyUrl
             THEN /\ stored' = [stored EXCEPT ![k] = v]
                  /\ setter' = [pc |-> "save", call |-> name]
                  /\ Output(Nothing, Nothing, NoResult)
             ELSE /\ UNCHANGED <<stored, setter>>
                  /\ Output(Nothing, Nothing, Result(name, "returned"))
  /\ answered' = NULL
  /\ UNCHANGED <<storeVars, fsVars, dlVars, reloadVars, delayVars, taskVars>>
  /\ UNCHANGED <<initialized, mainWindow, periodCheckInterval, intervals, built>>
  /\ UNCHANGED <<ntf, channel, chan, persisted>>

setUpdateUrl(url) == SetConfigValue("setUpdateUrl", "updateUrl", url)

setStatsUrl(url) == SetConfigValue("setStatsUrl", "statsUrl", url)

setChannelUrl(url) == SetConfigValue("setChannelUrl", "channelUrl", url)

setAppId(appId) == SetConfigValue("setAppId", "appId", appId)

\* storage.save() of a setter settled: the file holds what the Store held,
\* or the save failed and the setter rejects
SetterSaved(saved) ==
  /\ setter.pc = "save"
  /\ persisted' = IF saved THEN stored ELSE persisted
  /\ setter' = IdleSetter
  /\ Output(Nothing, Nothing, Result(setter.call, IF saved THEN "returned" ELSE "rejected"))
  /\ answered' = IF saved THEN "saved" ELSE "saveFailed"
  /\ UNCHANGED <<storeVars, fsVars, dlVars, fieldVars, reloadVars, delayVars, taskVars>>
  /\ UNCHANGED <<ntf, channel, chan, clients, stored>>

\* the application quits and is started again: a new ElectronUpdater is
\* constructed from the application's configuration; the Store's file, the
\* bundle directories and the armed delay condition are what they were
Relaunch ==
  /\ initialized
  /\ setter.pc = "idle"
  /\ config' = [config EXCEPT !.updateUrl = DEFAULT_CONFIG.updateUrl,
                              !.statsUrl = DEFAULT_CONFIG.statsUrl,
                              !.channelUrl = DEFAULT_CONFIG.channelUrl,
                              !.appId = DEFAULT_CONFIG.appId]
  /\ initialized' = FALSE
  /\ mainWindow' = FALSE
  /\ appReadyReceived' = FALSE
  /\ appReadyTimeout' = NoTimer
  /\ periodCheckInterval' = NoInterval
  /\ orphanTimers' = 0
  /\ intervals' = {}
  /\ built' = NothingBuilt
  /\ loaded' = NULL
  /\ inBackground' = FALSE
  /\ initCall' = [i \in InitCalls |-> "idle"]
  /\ apply' = [t \in ApplyTasks |-> IdleApply]
  /\ wdog' = NoCallbacks
  /\ chk' = IdleCheck
  /\ usr' = "idle"
  /\ ntf' = IdleNotify
  /\ chan' = IdleChannel
  /\ clients' = NoClients
  /\ stored' = NoSettings
  /\ UNCHANGED <<storeVars, fsVars, dlVars, delay, channel, setter, persisted>>
  /\ Silent

(***************************************************************************)
(* Specifications                                                          *)
(***************************************************************************)
vars == <<storeVars, fsVars, dlVars, coordVars, outVars>>

\* one downloadBundle call at a time, every option, every served zip
InitDownload ==
  /\ bundles = [id \in BundleIds |-> "absent"]
  /\ currentBundleId = BUILTIN_BUNDLE_ID
  /\ nextBundleId = NULL
  /\ fallbackBundleId = NULL
  /\ fsDirs = {}
  /\ fsFiles = NoFiles
  /\ idSeq = 0
  /\ dl = [d \in Slots |-> IdleCall]
  /\ config = DEFAULT_CONFIG
  /\ initialized = FALSE
  /\ mainWindow = FALSE
  /\ appReadyReceived = FALSE
  /\ appReadyTimeout = NoTimer
  /\ periodCheckInterval = NoInterval
  /\ orphanTimers = 0
  /\ intervals = {}
  /\ built = NothingBuilt
  /\ loaded = NULL
  /\ delay = "none"
  /\ inBackground = FALSE
  /\ initCall = [i \in InitCalls |-> "idle"]
  /\ apply = [t \in ApplyTasks |-> IdleApply]
  /\ wdog = NoCallbacks
  /\ chk = IdleCheck
  /\ usr = "idle"
  /\ ntf = IdleNotify
  /\ emitted = Nothing
  /\ sent = Nothing
  /\ settled = NoResult
  /\ answered = NULL
  /\ channel = NULL
  /\ chan = IdleChannel
  /\ setter = IdleSetter
  /\ clients = NoClients
  /\ stored = NoSettings
  /\ persisted = NoSettings

NextDownload ==
  \/ \E opts \in AllOptions :
        DownloadBundleStart(1, opts, MaxDownloads) /\ UNCHANGED coordVars /\ Silent
  \/ DownloadFileDone(1, ServedZips)
  \/ DownloadStep(1)
  \/ DownloadBundleSettled(1) /\ UNCHANGED coordVars /\ Silent

SpecDownload == InitDownload /\ [][NextDownload]_vars

\* several downloadBundle calls, one after another and overlapping
InitOverlap ==
  /\ bundles = [id \in BundleIds |-> "absent"]
  /\ currentBundleId = BUILTIN_BUNDLE_ID
  /\ nextBundleId = NULL
  /\ fallbackBundleId = NULL
  /\ fsDirs = {}
  /\ fsFiles = NoFiles
  /\ idSeq = 0
  /\ dl = [d \in Slots |-> IdleCall]
  /\ config = DEFAULT_CONFIG
  /\ initialized = FALSE
  /\ mainWindow = FALSE
  /\ appReadyReceived = FALSE
  /\ appReadyTimeout = NoTimer
  /\ periodCheckInterval = NoInterval
  /\ orphanTimers = 0
  /\ intervals = {}
  /\ built = NothingBuilt
  /\ loaded = NULL
  /\ delay = "none"
  /\ inBackground = FALSE
  /\ initCall = [i \in InitCalls |-> "idle"]
  /\ apply = [t \in ApplyTasks |-> IdleApply]
  /\ wdog = NoCallbacks
  /\ chk = IdleCheck
  /\ usr = "idle"
  /\ ntf = IdleNotify
  /\ emitted = Nothing
  /\ sent = Nothing
  /\ settled = NoResult
  /\ answered = NULL
  /\ channel = NULL
  /\ chan = IdleChannel
  /\ setter = IdleSetter
  /\ clients = NoClients
  /\ stored = NoSettings
  /\ persisted = NoSettings

NextOverlap ==
  \E d \in Slots :
    \/ \E opts \in FewOptions :
          DownloadBundleStart(d, opts, MaxBundles) /\ UNCHANGED coordVars /\ Silent
    \/ DownloadFileDone(d, FewZips)
    \/ DownloadStep(d)
    \/ DownloadBundleSettled(d) /\ UNCHANGED coordVars /\ Silent

SpecOverlap == InitOverlap /\ [][NextOverlap]_vars

\* one downloadBundle call against a server that may answer any request with
\* a redirect; a call under way goes on: every request is answered and every
\* awaited operation settles
NextRedirect ==
  \/ \E opts \in FewOptions :
        DownloadBundleStart(1, opts, MaxDownloads) /\ UNCHANGED coordVars /\ Silent
  \/ DownloadFileDone(1, FewZips)
  \/ DownloadFileRedirected(1)
  \/ DownloadToBufferRedirected(1)
  \/ DownloadStep(1)
  \/ DownloadBundleSettled(1) /\ UNCHANGED coordVars /\ Silent

DownloadProgress ==
  \/ DownloadFileDone(1, FewZips)
  \/ DownloadFileRedirected(1)
  \/ DownloadToBufferRedirected(1)
  \/ DownloadStep(1)

SpecRedirect == InitDownload /\ [][NextRedirect]_vars /\ WF_vars(DownloadProgress)

\* the updater from construction on: one initialize() call, then the
\* application's next/set/reload/notifyAppReady calls, the window losing
\* focus, the timers and the update check
\* the update the server offers: a plain zip, no checksum, no manifest
PlainOptions == DownloadOptions(NoChecksum, "", "none")

\* a bundle downloaded by an earlier run of the application: the Store
\* opens with its record, its directory is on disk
StoredBundle == BundleIdOf(MaxBundles)

SpecConfigs ==
  {[DEFAULT_CONFIG EXCEPT !.periodCheckDelay = MIN_PERIOD_CHECK_DELAY,
                          !.directUpdate = mode] : mode \in {"false", "always"}}

Init ==
  /\ bundles = [id \in BundleIds |-> IF id = StoredBundle THEN "success" ELSE "absent"]
  /\ currentBundleId = BUILTIN_BUNDLE_ID
  /\ nextBundleId = NULL
  /\ fallbackBundleId = NULL
  /\ fsDirs = {StoredBundle}
  /\ fsFiles = (IndexPathOf(StoredBundle) :> "index")
  /\ idSeq = 0
  /\ dl = [d \in Slots |-> IdleCall]
  /\ config \in SpecConfigs
  /\ initialized = FALSE
  /\ mainWindow = FALSE
  /\ appReadyReceived = FALSE
  /\ appReadyTimeout = NoTimer
  /\ periodCheckInterval = NoInterval
  /\ orphanTimers = 0
  /\ intervals = {}
  /\ built = NothingBuilt
  /\ loaded = NULL
  /\ delay = "none"
  /\ inBackground = FALSE
  /\ initCall = [i \in InitCalls |-> "idle"]
  /\ apply = [t \in ApplyTasks |-> IdleApply]
  /\ wdog = NoCallbacks
  /\ chk = IdleCheck
  /\ usr = "idle"
  /\ ntf = IdleNotify
  /\ emitted = Nothing
  /\ sent = Nothing
  /\ settled = NoResult
  /\ answered = NULL
  /\ channel = NULL
  /\ chan = IdleChannel
  /\ setter = IdleSetter
  /\ clients = NoClients
  /\ stored = NoSettings
  /\ persisted = NoSettings

Next ==
  \/ InitializeStart(1)
  \/ InitializeStorageReady(1)
  \/ InitializeFinish(1)
  \/ \E t \in {1, 11} : ApplyGotNext(t)
  \/ \E t \in {1, 11} : ApplySaved(t, MaxArmed)
  \/ \E t \in {1, 11} : ApplyReloaded(t)
  \/ WindowBlur
  \/ notifyAppReady
  \/ \E run \in FewRuns : NotifyAppReadyDone(run, run)
  \/ WatchdogFire
  \/ \E id \in DOMAIN wdog, run \in FewRuns : WatchdogReport(id, run, run)
  \/ \E id \in BundleIds : next(id)
  \/ \E id \in BundleIds : set(id)
  \/ SetReload(MaxArmed)
  \/ UserReload(MaxArmed)
  \/ \E h \in InitCalls : IntervalTick(h)
  \/ GetLatestNoDownload
  \/ GetLatestDownload(PlainOptions)
  \/ DownloadFileDone(1, FewZips)
  \/ MkdirDone(1)
  \/ SaveInitialDone(1)
  \/ VerifyDone(1)
  \/ ExtractDone(1)
  \/ UnlinkDone(1)
  \/ SaveSuccessDone(1)
  \/ CatchSaveDone(1)
  \/ RmDone(1)
  \/ CleanupSaveDone(1)
  \/ DownloadSettled
  \/ \E run \in FewRuns : DownloadFailedReported(run, run)
  \/ \E run \in FewRuns : DownloadCompleteReported(run, run)
  \/ CheckReload(MaxArmed)

Spec == Init /\ [][Next]_vars

\* the reload and watchdog handlers: an initialized updater whose Store
\* opened with bundles downloaded by earlier runs, driven by the
\* application's calls and the window's events
BuiltOnce == [stores |-> 1, components |-> 1, blur |-> 1, focus |-> 1, quit |-> 1]

InitWatchdog ==
  /\ bundles = [id \in BundleIds |-> "success"]
  /\ currentBundleId = BUILTIN_BUNDLE_ID
  /\ nextBundleId = NULL
  /\ fallbackBundleId = NULL
  /\ fsDirs = BundleIds
  /\ fsFiles = [p \in {IndexPathOf(id) : id \in BundleIds} |-> "index"]
  /\ idSeq = 0
  /\ dl = [d \in Slots |-> IdleCall]
  /\ config = DEFAULT_CONFIG
  /\ initialized = TRUE
  /\ mainWindow = TRUE
  /\ appReadyReceived = FALSE
  /\ appReadyTimeout = NoTimer
  /\ periodCheckInterval = NoInterval
  /\ orphanTimers = 0
  /\ intervals = {}
  /\ built = BuiltOnce
  /\ loaded = NULL
  /\ delay = "none"
  /\ inBackground = FALSE
  /\ initCall = [i \in InitCalls |-> IF i = 1 THEN "done" ELSE "idle"]
  /\ apply = [t \in ApplyTasks |-> IdleApply]
  /\ wdog = NoCallbacks
  /\ chk = IdleCheck
  /\ usr = "idle"
  /\ ntf = IdleNotify
  /\ emitted = Nothing
  /\ sent = Nothing
  /\ settled = NoResult
  /\ answered = NULL
  /\ channel = NULL
  /\ chan = IdleChannel
  /\ setter = IdleSetter
  /\ clients = ClientsOf(config)
  /\ stored = NoSettings
  /\ persisted = NoSettings

NextWatchdog ==
  \/ \E id \in BundleIds : next(id)
  \/ \E id \in BundleIds : set(id)
  \/ \E toBuiltin \in BOOLEAN : reset(toBuiltin)
  \/ SetReload(MaxTimers)
  \/ UserReload(MaxTimers)
  \/ notifyAppReady
  \/ \E run \in FewRuns : NotifyAppReadyDone(run, run)
  \/ WatchdogFire
  \/ \E id \in DOMAIN wdog, run \in FewRuns : WatchdogReport(id, run, run)
  \/ WindowBlur
  \/ WindowFocus
  \/ setMultiDelay
  \/ cancelDelay
  \/ ApplyGotNext(11)
  \/ ApplySaved(11, MaxTimers)
  \/ ApplyReloaded(11)

SpecWatchdog == InitWatchdog /\ [][NextWatchdog]_vars

\* initialize() called twice, one call after the other or both at once; the
\* Store may open with a bundle staged as next by an earlier run
InitConfigs ==
  {[DEFAULT_CONFIG EXCEPT !.periodCheckDelay = d] : d \in {0, MIN_PERIOD_CHECK_DELAY}}

InitInitialize ==
  /\ bundles = [id \in BundleIds |-> IF id = StoredBundle THEN "success" ELSE "absent"]
  /\ currentBundleId = BUILTIN_BUNDLE_ID
  /\ nextBundleId \in {NULL, StoredBundle}
  /\ fallbackBundleId = NULL
  /\ fsDirs = {StoredBundle}
  /\ fsFiles = (IndexPathOf(StoredBundle) :> "index")
  /\ idSeq = 0
  /\ dl = [d \in Slots |-> IdleCall]
  /\ config \in InitConfigs
  /\ initialized = FALSE
  /\ mainWindow = FALSE
  /\ appReadyReceived = FALSE
  /\ appReadyTimeout = NoTimer
  /\ periodCheckInterval = NoInterval
  /\ orphanTimers = 0
  /\ intervals = {}
  /\ built = NothingBuilt
  /\ loaded = NULL
  /\ delay = "none"
  /\ inBackground = FALSE
  /\ initCall = [i \in InitCalls |-> "idle"]
  /\ apply = [t \in ApplyTasks |-> IdleApply]
  /\ wdog = NoCallbacks
  /\ chk = IdleCheck
  /\ usr = "idle"
  /\ ntf = IdleNotify
  /\ emitted = Nothing
  /\ sent = Nothing
  /\ settled = NoResult
  /\ answered = NULL
  /\ channel = NULL
  /\ chan = IdleChannel
  /\ setter = IdleSetter
  /\ clients = NoClients
  /\ stored = NoSettings
  /\ persisted = NoSettings

NextInitialize ==
  \/ \E i \in InitCalls : InitializeStart(i)
  \/ \E i \in InitCalls : InitializeStorageReady(i)
  \/ \E i \in InitCalls : InitializeFinish(i)
  \/ \E t \in ApplyTasks : ApplyGotNext(t)
  \/ \E t \in ApplyTasks : ApplySaved(t, MaxTimers)
  \/ \E t \in ApplyTasks : ApplyReloaded(t)
  \/ WindowBlur
  \/ WindowFocus
  \/ notifyAppReady
  \/ \E run \in FewRuns : NotifyAppReadyDone(run, run)
  \/ WatchdogFire
  \/ \E id \in DOMAIN wdog, run \in FewRuns : WatchdogReport(id, run, run)
  \/ \E h \in InitCalls : IntervalTick(h)
  \/ GetLatestNoDownload

SpecInitialize == InitInitialize /\ [][NextInitialize]_vars

\* the automatic update cycle: one initialize() call, the interval's checks
\* with every answer of the server and every fate of the download and of
\* the telemetry, the window losing focus, notifyAppReady and the watchdog;
\* the application calls neither next, set nor reload and arms no delay
CycleConfigs ==
  {[DEFAULT_CONFIG EXCEPT !.periodCheckDelay = MIN_PERIOD_CHECK_DELAY,
                          !.directUpdate = mode,
                          !.disableJSLogging = quiet] :
     mode \in {"false", "always"}, quiet \in BOOLEAN}

InitCycle ==
  /\ bundles = [id \in BundleIds |-> IF id = StoredBundle THEN "success" ELSE "absent"]
  /\ currentBundleId = BUILTIN_BUNDLE_ID
  /\ nextBundleId = NULL
  /\ fallbackBundleId = NULL
  /\ fsDirs = {StoredBundle}
  /\ fsFiles = (IndexPathOf(StoredBundle) :> "index")
  /\ idSeq = 0
  /\ dl = [d \in Slots |-> IdleCall]
  /\ config \in CycleConfigs
  /\ initialized = FALSE
  /\ mainWindow = FALSE
  /\ appReadyReceived = FALSE
  /\ appReadyTimeout = NoTimer
  /\ periodCheckInterval = NoInterval
  /\ orphanTimers = 0
  /\ intervals = {}
  /\ built = NothingBuilt
  /\ loaded = NULL
  /\ delay = "none"
  /\ inBackground = FALSE
  /\ initCall = [i \in InitCalls |-> "idle"]
  /\ apply = [t \in ApplyTasks |-> IdleApply]
  /\ wdog = NoCallbacks
  /\ chk = IdleCheck
  /\ usr = "idle"
  /\ ntf = IdleNotify
  /\ emitted = Nothing
  /\ sent = Nothing
  /\ settled = NoResult
  /\ answered = NULL
  /\ channel = NULL
  /\ chan = IdleChannel
  /\ setter = IdleSetter
  /\ clients = NoClients
  /\ stored = NoSettings
  /\ persisted = NoSettings

\* the steps of the download that checkForUpdates started
CheckDownloadStep ==
  \/ DownloadFileDone(1, FewZips)
  \/ MkdirDone(1)
  \/ SaveInitialDone(1)
  \/ VerifyDone(1)
  \/ ExtractDone(1)
  \/ UnlinkDone(1)
  \/ SaveSuccessDone(1)
  \/ CatchSaveDone(1)
  \/ RmDone(1)
  \/ CleanupSaveDone(1)

\* what the host and the server do on their own
HostCycle ==
  \/ InitializeStart(1)
  \/ WindowBlur
  \/ notifyAppReady
  \/ \E h \in InitCalls : IntervalTick(h)

\* the rest of the initialize() call and of a checkAndApplyPendingUpdate task
InitializeTask == InitializeStorageReady(1) \/ InitializeFinish(1)

ApplyTask(t) == ApplyGotNext(t) \/ ApplySaved(t, MaxArmed) \/ ApplyReloaded(t)

\* the rest of a checkForUpdates() call
CheckTask ==
  \/ GetLatestNoDownload
  \/ GetLatestDownload(PlainOptions)
  \/ CheckDownloadStep
  \/ DownloadSettled
  \/ \E run \in StatsRuns : DownloadFailedReported(run, run)
  \/ \E run \in StatsRuns : DownloadCompleteReported(run, run)
  \/ CheckReload(MaxArmed)

NotifyTask == \E run \in StatsRuns : NotifyAppReadyDone(run, run)

WatchdogTask(id) == \E run \in StatsRuns : WatchdogReport(id, run, run)

NextCycle ==
  \/ HostCycle
  \/ InitializeTask
  \/ \E t \in {1, 11} : ApplyTask(t)
  \/ CheckTask
  \/ NotifyTask
  \/ WatchdogFire
  \/ \E id \in DOMAIN wdog : WatchdogTask(id)

\* a promise that can settle settles (every request has a timeout) and a
\* timer that is set fires; the host, the window and the server owe nothing
FairCycle ==
  /\ WF_vars(InitializeTask)
  /\ \A t \in {1, 11} : WF_vars(ApplyTask(t))
  /\ WF_vars(CheckTask)
  /\ WF_vars(NotifyTask)
  /\ WF_vars(WatchdogFire /\ appReadyTimeout' = "fired")
  /\ WF_vars(WatchdogFire /\ orphanTimers' < orphanTimers)
  /\ \A id \in BundleIds \cup {BUILTIN_BUNDLE_ID} : WF_vars(WatchdogTask(id))

SpecCycle == InitCycle /\ [][NextCycle]_vars /\ FairCycle

\* the automatic update cycle under every configuration of it: autoUpdate
\* on or off, periodCheckDelay at, below and far below the minimum, every
\* directUpdate mode
DirectUpdateModes == {"false", "true", "always", "atInstall", "onLaunch"}

AutoConfigs ==
  {[DEFAULT_CONFIG EXCEPT !.autoUpdate = auto,
                          !.periodCheckDelay = delayed,
                          !.directUpdate = mode] :
     auto \in BOOLEAN,
     delayed \in {0, MIN_PERIOD_CHECK_DELAY - 1, MIN_PERIOD_CHECK_DELAY},
     mode \in DirectUpdateModes}

InitAuto ==
  /\ bundles = [id \in BundleIds |-> IF id = StoredBundle THEN "success" ELSE "absent"]
  /\ currentBundleId = BUILTIN_BUNDLE_ID
  /\ nextBundleId = NULL
  /\ fallbackBundleId = NULL
  /\ fsDirs = {StoredBundle}
  /\ fsFiles = (IndexPathOf(StoredBundle) :> "index")
  /\ idSeq = 0
  /\ dl = [d \in Slots |-> IdleCall]
  /\ config \in AutoConfigs
  /\ initialized = FALSE
  /\ mainWindow = FALSE
  /\ appReadyReceived = FALSE
  /\ appReadyTimeout = NoTimer
  /\ periodCheckInterval = NoInterval
  /\ orphanTimers = 0
  /\ intervals = {}
  /\ built = NothingBuilt
  /\ loaded = NULL
  /\ delay = "none"
  /\ inBackground = FALSE
  /\ initCall = [i \in InitCalls |-> "idle"]
  /\ apply = [t \in ApplyTasks |-> IdleApply]
  /\ wdog = NoCallbacks
  /\ chk = IdleCheck
  /\ usr = "idle"
  /\ ntf = IdleNotify
  /\ emitted = Nothing
  /\ sent = Nothing
  /\ settled = NoResult
  /\ answered = NULL
  /\ channel = NULL
  /\ chan = IdleChannel
  /\ setter = IdleSetter
  /\ clients = NoClients
  /\ stored = NoSettings
  /\ persisted = NoSettings

SpecAuto == InitAuto /\ [][NextCycle]_vars

\* the reloads and their watchdogs: an initialized updater whose Store
\* opened with bundles downloaded by earlier runs; the application calls
\* set, reload and notifyAppReady, the timers fire, the telemetry requests
\* meet every fate
InitReady ==
  /\ bundles = [id \in BundleIds |-> "success"]
  /\ currentBundleId = BUILTIN_BUNDLE_ID
  /\ nextBundleId = NULL
  /\ fallbackBundleId = NULL
  /\ fsDirs = BundleIds
  /\ fsFiles = [p \in {IndexPathOf(id) : id \in BundleIds} |-> "index"]
  /\ idSeq = 0
  /\ dl = [d \in Slots |-> IdleCall]
  /\ config = DEFAULT_CONFIG
  /\ initialized = TRUE
  /\ mainWindow = TRUE
  /\ appReadyReceived = FALSE
  /\ appReadyTimeout = NoTimer
  /\ periodCheckInterval = NoInterval
  /\ orphanTimers = 0
  /\ intervals = {}
  /\ built = BuiltOnce
  /\ loaded = NULL
  /\ delay = "none"
  /\ inBackground = FALSE
  /\ initCall = [i \in InitCalls |-> IF i = 1 THEN "done" ELSE "idle"]
  /\ apply = [t \in ApplyTasks |-> IdleApply]
  /\ wdog = NoCallbacks
  /\ chk = IdleCheck
  /\ usr = "idle"
  /\ ntf = IdleNotify
  /\ emitted = Nothing
  /\ sent = Nothing
  /\ settled = NoResult
  /\ answered = NULL
  /\ channel = NULL
  /\ chan = IdleChannel
  /\ setter = IdleSetter
  /\ clients = ClientsOf(config)
  /\ stored = NoSettings
  /\ persisted = NoSettings

SetTask == SetReload(MaxArmed)

ReadyNotifyTask == \E run \in FewRuns : NotifyAppReadyDone(run, run)

ReadyWatchdogTask(id) == \E run \in FewRuns : WatchdogReport(id, run, run)

NextReady ==
  \/ \E id \in BundleIds : set(id)
  \/ SetTask
  \/ UserReload(MaxArmed)
  \/ notifyAppReady
  \/ ReadyNotifyTask
  \/ WatchdogFire
  \/ \E id \in DOMAIN wdog : ReadyWatchdogTask(id)

\* a promise that can settle settles and a timer that is set fires; the
\* application owes nothing
FairReady ==
  /\ WF_vars(SetTask)
  /\ WF_vars(ReadyNotifyTask)
  /\ WF_vars(WatchdogFire /\ appReadyTimeout' = "fired")
  /\ WF_vars(WatchdogFire /\ orphanTimers' < orphanTimers)
  /\ \A id \in BundleIds \cup {BUILTIN_BUNDLE_ID} : WF_vars(ReadyWatchdogTask(id))

SpecReady == InitReady /\ [][NextReady]_vars /\ FairReady

\* the pending update and its gate: one initialize() call on a Store that
\* may hold a staged bundle and an armed delay condition from an earlier
\* run; the application stages bundles and arms and cancels the delay, the
\* window loses and gains focus
InitGate ==
  /\ bundles = [id \in BundleIds |-> IF id = StoredBundle THEN "success" ELSE "absent"]
  /\ currentBundleId = BUILTIN_BUNDLE_ID
  /\ nextBundleId \in {NULL, StoredBundle}
  /\ fallbackBundleId = NULL
  /\ fsDirs = {StoredBundle}
  /\ fsFiles = (IndexPathOf(StoredBundle) :> "index")
  /\ idSeq = 0
  /\ dl = [d \in Slots |-> IdleCall]
  /\ config = DEFAULT_CONFIG
  /\ initialized = FALSE
  /\ mainWindow = FALSE
  /\ appReadyReceived = FALSE
  /\ appReadyTimeout = NoTimer
  /\ periodCheckInterval = NoInterval
  /\ orphanTimers = 0
  /\ intervals = {}
  /\ built = NothingBuilt
  /\ loaded = NULL
  /\ delay \in {"none", "background"}
  /\ inBackground = FALSE
  /\ initCall = [i \in InitCalls |-> "idle"]
  /\ apply = [t \in ApplyTasks |-> IdleApply]
  /\ wdog = NoCallbacks
  /\ chk = IdleCheck
  /\ usr = "idle"
  /\ ntf = IdleNotify
  /\ emitted = Nothing
  /\ sent = Nothing
  /\ settled = NoResult
  /\ answered = NULL
  /\ channel = NULL
  /\ chan = IdleChannel
  /\ setter = IdleSetter
  /\ clients = NoClients
  /\ stored = NoSettings
  /\ persisted = NoSettings

NextGate ==
  \/ InitializeStart(1)
  \/ InitializeTask
  \/ \E t \in {1, 11} : ApplyTask(t)
  \/ WindowBlur
  \/ WindowFocus
  \/ setMultiDelay
  \/ cancelDelay
  \/ \E id \in BundleIds : next(id)
  \/ notifyAppReady
  \/ ReadyNotifyTask
  \/ WatchdogFire
  \/ \E id \in DOMAIN wdog : ReadyWatchdogTask(id)

SpecGate == InitGate /\ [][NextGate]_vars

\* the channel methods: an initialized updater whose Store may hold a
\* channel set by an earlier run; the application sets, unsets and reads
\* the channel, the channel endpoint answers or fails in every way, the
\* Store's save succeeds or fails, a triggered check runs to its end
ChannelConfigs ==
  {[DEFAULT_CONFIG EXCEPT !.defaultChannel = d] : d \in {"", "production"}}

InitChannel ==
  /\ bundles = [id \in BundleIds |-> "success"]
  /\ currentBundleId = BUILTIN_BUNDLE_ID
  /\ nextBundleId = NULL
  /\ fallbackBundleId = NULL
  /\ fsDirs = BundleIds
  /\ fsFiles = [p \in {IndexPathOf(id) : id \in BundleIds} |-> "index"]
  /\ idSeq = 0
  /\ dl = [d \in Slots |-> IdleCall]
  /\ config \in ChannelConfigs
  /\ initialized = TRUE
  /\ mainWindow = TRUE
  /\ appReadyReceived = FALSE
  /\ appReadyTimeout = NoTimer
  /\ periodCheckInterval = NoInterval
  /\ orphanTimers = 0
  /\ intervals = {}
  /\ built = BuiltOnce
  /\ loaded = NULL
  /\ delay = "none"
  /\ inBackground = FALSE
  /\ initCall = [i \in InitCalls |-> IF i = 1 THEN "done" ELSE "idle"]
  /\ apply = [t \in ApplyTasks |-> IdleApply]
  /\ wdog = NoCallbacks
  /\ chk = IdleCheck
  /\ usr = "idle"
  /\ ntf = IdleNotify
  /\ emitted = Nothing
  /\ sent = Nothing
  /\ settled = NoResult
  /\ answered = NULL
  /\ channel \in {NULL} \cup ChannelNames
  /\ chan = IdleChannel
  /\ setter = IdleSetter
  /\ clients = ClientsOf(config)
  /\ stored = NoSettings
  /\ persisted = NoSettings

NextChannel ==
  \/ \E name \in ChannelNames, trigger \in BOOLEAN : setChannel(name, trigger)
  \/ \E met \in StatusReplies : SetChannelAnswered(met)
  \/ \E saved \in BOOLEAN : SetChannelSaved(saved)
  \/ \E trigger \in BOOLEAN : unsetChannel(trigger)
  \/ \E met \in StatusReplies : UnsetChannelAnswered(met)
  \/ \E saved \in BOOLEAN : UnsetChannelSaved(saved)
  \/ getChannel
  \/ \E met \in ChannelReplies : GetChannelAnswered(met)
  \/ GetLatestNoDownload

SpecChannel == InitChannel /\ [][NextChannel]_vars

\* the settings changed at run time: the application initializes the
\* updater, calls the four setters with every value, quits and starts again;
\* the configuration allows or forbids the changes and persists them or not
UrlConfigs ==
  {[DEFAULT_CONFIG EXCEPT !.allowModifyUrl = u, !.allowModifyAppId = a,
                          !.persistModifyUrl = p] :
     u \in BOOLEAN, a \in BOOLEAN, p \in BOOLEAN}

InitUrls ==
  /\ bundles = [id \in BundleIds |-> IF id = StoredBundle THEN "success" ELSE "absent"]
  /\ currentBundleId = BUILTIN_BUNDLE_ID
  /\ nextBundleId = NULL
  /\ fallbackBundleId = NULL
  /\ fsDirs = {StoredBundle}
  /\ fsFiles = (IndexPathOf(StoredBundle) :> "index")
  /\ idSeq = 0
  /\ dl = [d \in Slots |-> IdleCall]
  /\ config \in UrlConfigs
  /\ initialized = FALSE
  /\ mainWindow = FALSE
  /\ appReadyReceived = FALSE
  /\ appReadyTimeout = NoTimer
  /\ periodCheckInterval = NoInterval
  /\ orphanTimers = 0
  /\ intervals = {}
  /\ built = NothingBuilt
  /\ loaded = NULL
  /\ delay = "none"
  /\ inBackground = FALSE
  /\ initCall = [i \in InitCalls |-> "idle"]
  /\ apply = [t \in ApplyTasks |-> IdleApply]
  /\ wdog = NoCallbacks
  /\ chk = IdleCheck
  /\ usr = "idle"
  /\ ntf = IdleNotify
  /\ emitted = Nothing
  /\ sent = Nothing
  /\ settled = NoResult
  /\ answered = NULL
  /\ channel = NULL
  /\ chan = IdleChannel
  /\ setter = IdleSetter
  /\ clients = NoClients
  /\ stored = NoSettings
  /\ persisted = NoSettings

NextUrls ==
  \/ InitializeStart(1)
  \/ InitializeTask
  \/ ApplyGotNext(1)
  \/ \E url \in UrlValues : setUpdateUrl(url)
  \/ \E url \in UrlValues : setStatsUrl(url)
  \/ \E url \in UrlValues : setChannelUrl(url)
  \/ \E appId \in AppIds : setAppId(appId)
  \/ \E saved \in BOOLEAN : SetterSaved(saved)
  \/ Relaunch

SpecUrls == InitUrls /\ [][NextUrls]_vars

\* the requests of an initialized updater whose app id the application
\* changes: telemetry (notifyAppReady), the channel endpoint (getChannel) and
\* the update endpoint (a check started by setChannel with triggerAutoUpdate)
AgentConfigs ==
  {[DEFAULT_CONFIG EXCEPT !.appId = a, !.allowModifyAppId = m] :
     a \in AppIds, m \in BOOLEAN}

InitAgent ==
  /\ bundles = [id \in BundleIds |-> "success"]
  /\ currentBundleId = BUILTIN_BUNDLE_ID
  /\ nextBundleId = NULL
  /\ fallbackBundleId = NULL
  /\ fsDirs = BundleIds
  /\ fsFiles = [p \in {IndexPathOf(id) : id \in BundleIds} |-> "index"]
  /\ idSeq = 0
  /\ dl = [d \in Slots |-> IdleCall]
  /\ config \in AgentConfigs
  /\ initialized = TRUE
  /\ mainWindow = TRUE
  /\ appReadyReceived = FALSE
  /\ appReadyTimeout = NoTimer
  /\ periodCheckInterval = NoInterval
  /\ orphanTimers = 0
  /\ intervals = {}
  /\ built = BuiltOnce
  /\ loaded = NULL
  /\ delay = "none"
  /\ inBackground = FALSE
  /\ initCall = [i \in InitCalls |-> IF i = 1 THEN "done" ELSE "idle"]
  /\ apply = [t \in ApplyTasks |-> IdleApply]
  /\ wdog = NoCallbacks
  /\ chk = IdleCheck
  /\ usr = "idle"
  /\ ntf = IdleNotify
  /\ emitted = Nothing
  /\ sent = Nothing
  /\ settled = NoResult
  /\ answered = NULL
  /\ channel = NULL
  /\ chan = IdleChannel
  /\ setter = IdleSetter
  /\ clients = ClientsOf(config)
  /\ stored = NoSettings
  /\ persisted = NoSettings

NextAgent ==
  \/ \E appId \in AppIds : setAppId(appId)
  \/ notifyAppReady
  \/ \E run \in FewRuns : NotifyAppReadyDone(run, run)
  \/ getChannel
  \/ \E met \in ChannelReplies : GetChannelAnswered(met)
  \/ \E name \in ChannelNames : setChannel(name, TRUE)
  \/ \E met \in StatusReplies : SetChannelAnswered(met)
  \/ \E saved \in BOOLEAN : SetChannelSaved(saved)
  \/ GetLatestNoDownload

SpecAgent == InitAgent /\ [][NextAgent]_vars

(***************************************************************************)
(* Properties of downloadBundle                                            *)
(***************************************************************************)
Failed(d) == dl[d].pc = "thrown"
Returned(d) == dl[d].pc = "returned"
\* ids of the calls that have not yet returned or thrown
InFlight == {dl[d].id : d \in {e \in Slots : dl[e].pc \notin {"idle", "returned", "thrown"}}}
InsideWww(p) == \E id \in BundleIds : IsPrefix(ExtractPathOf(id), p)
FilesOf(id) == {p \in DOMAIN fsFiles : IsPrefix(getBundlePath(id), p)}
CleanedUp(id) == id \notin fsDirs /\ bundles[id] = "absent" /\ FilesOf(id) = {}

\* C4: whenever downloadBundle fails after the bundle id is allocated, then
\* when the call returns the bundle directory has been removed, the registry
\* holds no record for the id, and the caller receives the original error.
C4_FailureCleansUp ==
  \A d \in Slots :
    Failed(d) => /\ dl[d].id \notin fsDirs
                 /\ bundles[dl[d].id] = "absent"
                 /\ dl[d].thrown = dl[d].error

\* C5: once downloadBundle calls have completed (returned or thrown), the
\* bundle directories under the bundles root are exactly the bundle ids the
\* Store holds a record for, for every id that no call still works on.
C5_NoOrphans ==
  \A id \in BundleIds \ InFlight : (id \in fsDirs) <=> (bundles[id] # "absent")

\* two calls have completed side by side, one returned and one thrown
C5_Witness ==
  \E d, e \in Slots :
    /\ Returned(d) /\ Failed(e)
    /\ dl[d].id \in fsDirs /\ dl[e].id \notin fsDirs

C7_SuccessHasIndex ==
  \A id \in BundleIds : bundles[id] = "success" => IndexPathOf(id) \in DOMAIN fsFiles

\* C8: a bundle is marked success only if every requested integrity check
\* passed: with a checksum supplied the downloaded zip's digest equals it (as
\* given, or as decrypted with the session key), and every manifest file
\* fetched with a file_hash has that hash; a mismatch ends the call with the
\* checksum error, resp. the hash error, and the bundle is not success.
C8_SuccessImpliesIntegrity ==
  \A d \in Slots :
    LET digest == calculateFileChecksum(dl[d].fetched)
        matches == \/ digest = dl[d].checksum
                   \/ digest = decryptChecksum(dl[d].checksum, dl[d].sessionKey)
        manifest == Manifest(dl[d].manifest)
    IN
    /\ (dl[d].infoStatus = "success" /\ dl[d].checksum # NoChecksum) => matches
    /\ dl[d].infoStatus = "success" =>
         \A i \in dl[d].mfetched :
           manifest[i].file_hash # NoChecksum =>
             hashFile(fsFiles[PathJoin(ExtractPathOf(dl[d].id), manifest[i].file_name)])
               = manifest[i].file_hash
    /\ (dl[d].fetched # NoZip /\ dl[d].checksum # NoChecksum /\ ~matches
        /\ dl[d].pc # "verify") =>
         /\ dl[d].error = "checksum"
         /\ bundles[dl[d].id] # "success"
    /\ dl[d].error = "hash" => bundles[dl[d].id] # "success"

\* a call given a checksum and a manifest entry with a hash returned success
\* after fetching that entry
C8_Witness ==
  \E d \in Slots :
    /\ Returned(d) /\ dl[d].checksum # NoChecksum
    /\ \E i \in dl[d].mfetched : Manifest(dl[d].manifest)[i].file_hash # NoChecksum

\* C9: with a sessionKey supplied, the digest compared with the expected
\* checksum, and the checksum recorded on the bundle, is that of the
\* decrypted zip.
C9_ChecksumOfDecryptedZip ==
  \A d \in Slots :
    (Returned(d) /\ dl[d].sessionKey # "") =>
       dl[d].infoChecksum =
         calculateFileChecksum(decryptFile(dl[d].fetched, dl[d].sessionKey))

(***************************************************************************)
(* Properties of the updater                                               *)
(***************************************************************************)
\* C1: when a watchdog callback that found appReadyReceived false ends, the
\* bundle that was current when the timer fired is marked error and is no
\* longer current; current is a success bundle or the builtin bundle
C1_WatchdogRollsBack ==
  [][\A id \in BundleIds :
       wdog'[id] < wdog[id] =>
         /\ bundles'[id] = "error"
         /\ currentBundleId' # id
         /\ \/ currentBundleId' = BUILTIN_BUNDLE_ID
            \/ bundles'[currentBundleId'] = "success"]_vars

\* C2: at most one watchdog timer and at most one periodic-check timer is
\* pending
C2_TimersAreSingle ==
  /\ PendingWatchdogs <= 1
  /\ Cardinality(intervals) <= 1

\* C3: currentBundleId always refers to a bundle with status success or to
\* the builtin bundle, and the bundle checkForUpdates is about to pass to
\* set() or next() has status success
C3_CurrentIsSuccessOrBuiltin ==
  /\ currentBundleId = BUILTIN_BUNDLE_ID \/ bundles[currentBundleId] = "success"
  /\ chk.pc = "statsComplete" => bundles[chk.bundle] = "success"

\* C10: whatever the two initialize() calls do, the Store and the
\* components are built once, each listener and the before-quit handler is
\* registered once, and one periodic timer exists
C10_InitializeIsIdempotent ==
  /\ built.stores <= 1
  /\ built.components <= 1
  /\ built.blur <= 1
  /\ built.focus <= 1
  /\ built.quit <= 1
  /\ Cardinality(intervals) <= 1

(***************************************************************************)
(* Properties of the update check, the telemetry and the watchdog           *)
(***************************************************************************)
\* C11: checkForUpdates never rejects: whenever a check settles it has
\* resolved, an error raised inside it was caught, and logged unless
\* disableJSLogging; the interval can start the next check
C11_CheckNeverRejects ==
  settled.call = "checkForUpdates" =>
    /\ settled.result \in {"ok", "caught", "logged"}
    /\ settled.result = "caught" => config.disableJSLogging
    /\ settled.result = "logged" => ~config.disableJSLogging
    /\ ENABLED (\E h \in InitCalls : IntervalTick(h))

\* a check whose download failed has settled, its error caught and logged
C11_Witness ==
  /\ settled = Result("checkForUpdates", "logged")
  /\ emitted.event = "downloadFailed"

\* C12: a failure of the stats endpoint changes nothing but the request's
\* own fate: the step that follows a telemetry send which met a transport
\* error, a timeout, a non-2xx status or an invalid URL is the step that
\* follows the same send when the request succeeds: same Store, same
\* event emitted, same result of the call
C12_StatsFailureChangesNothing ==
  [][\A run \in StatsRuns :
       /\ NotifyAppReadyDone(run, run) => NotifyAppReadyDone("ok", run)
       /\ DownloadFailedReported(run, run) => DownloadFailedReported("ok", run)
       /\ DownloadCompleteReported(run, run) => DownloadCompleteReported("ok", run)
       /\ \A id \in DOMAIN wdog :
            WatchdogReport(id, run, run) => WatchdogReport(id, "ok", run)]_vars

\* a bundle was downloaded and staged although the stats request for
\* download_complete had failed
C12_Witness ==
  /\ answered \in StatsRuns \ {"off", "ok"}
  /\ emitted.event = "downloadComplete"
  /\ nextBundleId = emitted.bundle
  /\ settled = Result("checkForUpdates", "ok")

\* the calls that are suspended until a stats request settles
StatsAwaited ==
  (IF chk.pc \in {"statsComplete", "statsFailed"} THEN {"checkForUpdates"} ELSE {})
  \cup (IF ntf.pc = "stats" THEN {"notifyAppReady"} ELSE {})
  \cup (IF RunningCallbacks > 0 THEN {"watchdog"} ELSE {})

\* C13: telemetry never blocks the update pipeline: no call of the pipeline
\* (download() and the downloadComplete event with the set/next after it,
\* the appReady event of notifyAppReady, the updateFailed event and the
\* reload of the watchdog) waits for its stats request to finish
C13_TelemetryNeverBlocks == StatsAwaited = {}

\* C14: after a reload() that no notifyAppReady() follows in time, the
\* watchdog fires and the failure is surfaced: the armed timer fires unless
\* it is cancelled; a timer that fires while appReadyReceived is false
\* sends set_fail for the current bundle; every callback so started emits
\* updateFailed for that bundle and tells the window to load the path of
\* the registry's current bundle; no call is settled with an error by it
C14_WatchdogSurfacesFailure ==
  /\ (appReadyTimeout = "pending") ~> (appReadyTimeout # "pending")
  /\ [][PendingWatchdogs' < PendingWatchdogs /\ ~appReadyReceived /\ ~appReadyReceived'
          => /\ sent' = Event("set_fail", currentBundleId)
             /\ wdog' = [wdog EXCEPT ![currentBundleId] = @ + 1]]_vars
  /\ \A id \in BundleIds \cup {BUILTIN_BUNDLE_ID} :
        (wdog[id] > 0) ~> (emitted = Event("updateFailed", id) /\ loaded = currentBundleId)
  /\ [][emitted'.event = "updateFailed" => settled' = NoResult]_vars

\* the watchdog of a reload onto a downloaded bundle has reported the failure
C14_Witness ==
  /\ emitted.event = "updateFailed"
  /\ emitted.bundle \in BundleIds
  /\ loaded = emitted.bundle
  /\ ~appReadyReceived
  /\ appReadyTimeout = "fired"

\* C15: notifyAppReady() cancels the watchdog armed by the most recent
\* reload(): the call clears the timer the field refers to, sets
\* appReadyReceived, runs markBundleSuccessful (the fallback is pruned) and
\* sends set for the current bundle; when the send has settled it emits
\* appReady with that bundle and returns; as long as appReadyReceived
\* stays true no timer that fires starts a report: no set_fail is sent
\* and no callback is left to emit updateFailed or reload the window
C15_AppReadyCancelsWatchdog ==
  [][/\ (ntf.pc = "idle" /\ ntf'.pc = "stats") =>
          /\ appReadyTimeout' = NoTimer
          /\ PendingWatchdogs' = orphanTimers
          /\ appReadyReceived'
          /\ fallbackBundleId' = NULL
          /\ fallbackBundleId \in BundleIds => bundles'[fallbackBundleId] = "absent"
          /\ sent' = Event("set", currentBundleId)
          /\ ntf'.bundle = currentBundleId
     /\ (ntf.pc = "stats" /\ ntf'.pc = "idle") =>
          /\ emitted' = Event("appReady", ntf.bundle)
          /\ settled' = Result("notifyAppReady", "returned")
     /\ (appReadyReceived /\ appReadyReceived') =>
          /\ sent'.event # "set_fail"
          /\ RunningCallbacks' <= RunningCallbacks
     /\ (emitted'.event = "updateFailed" \/ sent'.event = "set_fail") =>
          RunningCallbacks' # RunningCallbacks]_vars

\* notifyAppReady() was called before the watchdog of a reload onto a
\* downloaded bundle expired: the timer is cancelled, set is sent, no timer
\* and no callback is left
C15_Witness ==
  /\ ntf.pc = "stats"
  /\ ntf.cancelled
  /\ ntf.bundle \in BundleIds
  /\ loaded = ntf.bundle
  /\ sent = Event("set", ntf.bundle)
  /\ PendingWatchdogs = 0
  /\ RunningCallbacks = 0
  /\ appReadyReceived

\* C16: in the happy path (checkForUpdates has downloaded a bundle and
\* staged it with next while the window is focused and no delay condition
\* is unmet) applyPendingUpdate eventually runs in the same session: the
\* staged bundle becomes the current bundle, which the reload then loads
C16_StagedUpdateIsApplied ==
  \A id \in BundleIds :
    (/\ emitted = Event("downloadComplete", id)
     /\ settled = Result("checkForUpdates", "ok")
     /\ nextBundleId = id
     /\ ~inBackground
     /\ areConditionsSatisfied)
      ~> (currentBundleId = id)

C18_ChannelSetOnlyOnOkStatus ==
  [][/\ (chan.call = "setChannel" /\ chan.pc = "request" /\ chan'.pc # "request") =>
          IF answered' \in {"ok", "success"}
          THEN channel' = chan.arg
          ELSE channel' = channel
     /\ (chan.call = "setChannel" /\ chan.pc = "save" /\ chan'.pc # "save") =>
          /\ channel' = channel
          /\ settled' \in {Result("setChannel", "ok"), Result("setChannel", "success")}]_vars

\* C19: unsetChannel clears the stored channel and goes on to save the
\* Store whatever the request met (a response of any status, or any
\* failure); the call is never rejected because of the request, only a
\* failed save of the Store rejects it
C19_UnsetAlwaysClears ==
  [][/\ (chan.call = "unsetChannel" /\ chan.pc = "request" /\ chan'.pc # "request") =>
          /\ channel' = NULL
          /\ chan'.pc = "save"
          /\ settled' = NoResult
     /\ (settled'.call = "unsetChannel") =>
          /\ chan.pc = "save"
          /\ channel' = NULL
          /\ (settled'.result = "rejected" <=> answered' = "saveFailed")]_vars

\* the request of unsetChannel has failed in transport and a channel-less
\* Store is about to be saved
C19_Witness ==
  /\ chan.call = "unsetChannel"
  /\ chan.pc = "save"
  /\ answered \in ChannelFailures
  /\ channel = NULL

\* C20: getChannel resolves whatever the request met; after a failure of
\* the request (invalid URL, connect error, timeout, non-2xx, unparsable
\* body) it resolves with the stored channel, or the default channel when
\* none is stored, allowSet true and status ok; no step of the call
\* changes the Store
C20_GetChannelFallsBackToLocal ==
  [][/\ (chan.call = "getChannel" /\ chan.pc = "request" /\ chan'.pc # "request") =>
          /\ settled'.call = "getChannel"
          /\ answered' \in ChannelFailures =>
                settled'.result =
                  [channel |-> IF channel # NULL THEN channel
                               ELSE IF config.defaultChannel # "" THEN config.defaultChannel
                               ELSE NULL,
                   allowSet |-> TRUE,
                   status |-> "ok"]
          /\ UNCHANGED <<storeVars, channel>>
     /\ (chan.pc = "idle" /\ chan'.call = "getChannel") =>
          UNCHANGED <<storeVars, channel>>]_vars

\* a timed-out getChannel has resolved with the channel the Store holds,
\* not the configured default
C20_Witness ==
  /\ settled.call = "getChannel"
  /\ answered = "timeout"
  /\ channel = "beta"
  /\ config.defaultChannel = "production"
  /\ settled.result = [channel |-> "beta", allowSet |-> TRUE, status |-> "ok"]


(***************************************************************************)
(* Properties of the calls made by the application                         *)
(***************************************************************************)
\* C21: a setChannel call whose request fails (invalid URL, connect error,
\* timeout, non-2xx, unparsable body) or whose save of the Store fails is
\* settled as a rejection carrying that error, not as a resolved value
C21_SetChannelRejectsOnFailure ==
  [][(/\ settled'.call = "setChannel"
      /\ answered' \in ChannelFailures \cup {"saveFailed"})
       => settled'.result = "rejected"]_vars

\* the setters, and the setting each of them changes
SetterNames == {"setUpdateUrl", "setStatsUrl", "setChannelUrl", "setAppId"}
SettingOf(call) ==
  CASE call = "setUpdateUrl" -> "updateUrl"
    [] call = "setStatsUrl" -> "statsUrl"
    [] call = "setChannelUrl" -> "channelUrl"
    [] call = "setAppId" -> "appId"

\* C22: while allowModifyUrl is false a call of setUpdateUrl, setStatsUrl
\* or setChannelUrl, and while allowModifyAppId is false a call of
\* setAppId, ends with the not-allowed error in its first step and leaves
\* the configuration, the stats and channel clients and the Store (in
\* memory and on file) as they were; no such call gets as far as a save
C22_ForbiddenSettersChangeNothing ==
  [][/\ (/\ setter.pc = "idle"
         /\ settled'.call \in SetterNames \ {"setAppId"}
         /\ ~config.allowModifyUrl) =>
           /\ settled'.result = "notAllowed"
           /\ UNCHANGED <<config, clients, stored, persisted, storeVars, channel>>
     /\ (/\ setter.pc = "idle"
         /\ settled'.call = "setAppId"
         /\ ~config.allowModifyAppId) =>
           /\ settled'.result = "notAllowed"
           /\ UNCHANGED <<config, clients, stored, persisted, storeVars, channel>>
     /\ (setter.pc = "idle" /\ setter'.pc = "save") =>
           IF setter'.call = "setAppId"
           THEN config.allowModifyAppId
           ELSE config.allowModifyUrl]_vars

\* setStatsUrl was refused on an initialized updater whose configuration
\* allows the appId to change but not the URLs
C22_Witness ==
  /\ settled = Result("setStatsUrl", "notAllowed")
  /\ initialized
  /\ config.allowModifyAppId
  /\ ~config.allowModifyUrl
  /\ clients.statsUrl = DEFAULT_CONFIG.statsUrl
  /\ config.statsUrl = DEFAULT_CONFIG.statsUrl

\* C23: with persistModifyUrl set, a setter that returns has left its value
\* in the Store's file, and initialize takes every value the file holds as
\* the configuration's value; with persistModifyUrl unset no setter writes
\* to the Store and the file never changes
C23_PersistedSettingsSurviveRestart ==
  [][/\ (/\ setter.pc = "save"
         /\ settled' = Result(setter.call, "returned")) =>
           persisted'[SettingOf(setter.call)] = config[SettingOf(setter.call)]
     /\ (/\ config.persistModifyUrl
         /\ initCall[1] = "storage"
         /\ initCall'[1] = "pending") =>
           \A k \in Settings : persisted[k] # NULL => config'[k] = persisted[k]
     /\ ~config.persistModifyUrl =>
           /\ persisted' = persisted
           /\ settled'.call \in SetterNames => stored' = stored]_vars


(***************************************************************************)
(* Properties of the automatic check                                       *)
(***************************************************************************)
\* C24: the step of checkForUpdates that emits downloadComplete for a
\* downloaded bundle calls set for it when directUpdate is true or
\* "always" (the bundle becomes the current one, the staged one stays, the
\* reload follows) and next for it in every other mode (the bundle becomes
\* the staged one, the current one stays, the check is over); never both
C24_SetOrNextAfterDownload ==
  [][\A id \in BundleIds :
       emitted' = Event("downloadComplete", id) =>
         IF config.directUpdate \in {"true", "always"}
         THEN /\ currentBundleId' = id
              /\ nextBundleId' = nextBundleId
              /\ chk'.pc = "reload"
         ELSE /\ nextBundleId' = id
              /\ currentBundleId' = currentBundleId
              /\ settled' = Result("checkForUpdates", "ok")]_vars

\* with directUpdate "atInstall" a downloaded bundle has been staged
C24_Witness ==
  \E id \in BundleIds :
    /\ emitted = Event("downloadComplete", id)
    /\ config.directUpdate = "atInstall"
    /\ nextBundleId = id
    /\ currentBundleId = BUILTIN_BUNDLE_ID

\* the outcome of getLatest() that a step of the check took up
LatestNamed(name) == CHOOSE latest \in GetLatestOutcomes : latest.name = name
GetLatestSettles == chk.pc = "getLatest" /\ chk'.pc # "getLatest"

\* C25 as stated: whenever the answer has breaking set and is not
\* no_new_version_available, the check emits updateAvailable,
\* breakingAvailable and majorAvailable and ends without a download, a set
\* or a next
C25_BreakingAlwaysAnnounced ==
  [][(/\ GetLatestSettles
      /\ LatestNamed(answered').breaking
      /\ LatestNamed(answered').error # "no_new_version_available") =>
        /\ emitted' = EventAfter(<<"updateAvailable", "breakingAvailable">>,
                                 "majorAvailable", NULL)
        /\ chk' = IdleCheck
        /\ UNCHANGED <<storeVars, fsVars, dlVars>>]_vars

\* C25: whenever the answer carries a url and a version, has breaking set
\* and is not no_new_version_available, the check emits updateAvailable,
\* breakingAvailable and majorAvailable and ends; and whatever else an
\* answer with breaking set carries, no download is started and neither
\* set nor next is called
C25_BreakingUpdateAnnounced ==
  [][(/\ GetLatestSettles
      /\ LatestNamed(answered').breaking) =>
        /\ (/\ LatestNamed(answered').url
            /\ LatestNamed(answered').version
            /\ LatestNamed(answered').error # "no_new_version_available") =>
              emitted' = EventAfter(<<"updateAvailable", "breakingAvailable">>,
                                    "majorAvailable", NULL)
        /\ chk' = IdleCheck
        /\ settled' = Result("checkForUpdates", "ok")
        /\ UNCHANGED <<storeVars, fsVars, dlVars>>]_vars

\* a check has ended on a breaking update with the three events emitted
C25_Witness ==
  /\ answered = "breakingUpdate"
  /\ emitted.event = "majorAvailable"
  /\ emitted.earlier = <<"updateAvailable", "breakingAvailable">>
  /\ chk = IdleCheck
  /\ dl[1].pc = "idle"

\* C26: once initialize has returned, the interval timer exists exactly
\* when autoUpdate is set and periodCheckDelay is 600 or more, and a check
\* starts only under that configuration
C26_PeriodicChecksOnlyWhenConfigured ==
  [][/\ initialized' =>
          ((periodCheckInterval' # NoInterval /\ intervals' # {})
             <=> (config.autoUpdate /\ config.periodCheckDelay >= 600))
     /\ (~initialized') => (periodCheckInterval' = NoInterval /\ intervals' = {})
     /\ (chk.pc = "idle" /\ chk'.pc # "idle") =>
          (config.autoUpdate /\ config.periodCheckDelay >= 600)]_vars

\* initialize has returned with autoUpdate set and a periodCheckDelay of
\* 599 seconds: no interval timer
C26_Witness ==
  /\ initialized
  /\ config.autoUpdate
  /\ config.periodCheckDelay = 599
  /\ periodCheckInterval = NoInterval
  /\ intervals = {}

\* C27: when downloadBundle has thrown, download() sends download_fail,
\* then emits downloadFailed and throws to checkForUpdates (whose catch
\* ends the check), and neither step changes currentBundleId, nextBundleId
\* or fallbackBundleId
C27_DownloadFailureReported ==
  [][/\ (chk.pc = "download" /\ chk'.pc = "statsFailed") =>
          /\ sent' = Event("download_fail", NULL)
          /\ UNCHANGED <<currentBundleId, nextBundleId, fallbackBundleId>>
     /\ (chk.pc = "statsFailed" /\ chk'.pc # "statsFailed") =>
          /\ emitted' = Event("downloadFailed", NULL)
          /\ settled'.call = "checkForUpdates"
          /\ settled'.result \in {"caught", "logged"}
          /\ chk' = IdleCheck
          /\ UNCHANGED <<currentBundleId, nextBundleId, fallbackBundleId>>]_vars

\* downloadFailed was emitted and the error reached checkForUpdates, the
\* request for download_fail having timed out
C27_Witness ==
  /\ emitted = Event("downloadFailed", NULL)
  /\ settled = Result("checkForUpdates", "logged")
  /\ answered = "timeout"
  /\ currentBundleId = BUILTIN_BUNDLE_ID

\* the steps of the try block of downloadBundle, in the order of the code
TrySteps == {"fetch", "verify", "decrypt", "extract", "unlink", "manifest", "saveSuccess"}

\* the step that follows a completed step of a call (decryption only with a
\* session key, the manifest pass only with a non-empty manifest)
StepAfter(frame) ==
  CASE frame.pc = "fetch" -> "verify"
    [] frame.pc = "verify" -> IF frame.sessionKey # "" THEN "decrypt" ELSE "extract"
    [] frame.pc = "decrypt" -> "extract"
    [] frame.pc = "extract" -> "unlink"
    [] frame.pc = "unlink" ->
         IF Len(Manifest(frame.manifest)) > 0 THEN "manifest" ELSE "saveSuccess"
    [] frame.pc = "manifest" -> "saveSuccess"
    [] frame.pc = "saveSuccess" -> "returned"
    [] OTHER -> frame.pc

\* C28: within one downloadBundle call the steps run in the order fetch,
\* verify checksum, decrypt, extract, delete zip, manifest pass, mark success:
\* a step of the call either starts the next step of that order or enters the
\* catch block (with the record set to error); the record of the call's id
\* reads downloading through every step before the marking, turns success
\* only in the step that ends the zip's deletion or the manifest pass, and a
\* call returns only with the record at success.
C28_StepsInOrder ==
  [][\A d \in Slots :
       /\ (dl[d].pc \in TrySteps /\ dl'[d].pc # dl[d].pc) =>
            \/ dl'[d].pc = StepAfter(dl[d]) /\ dl'[d].id = dl[d].id
            \/ dl'[d].pc = "catchSave" /\ bundles'[dl[d].id] = "error"
       /\ dl[d].pc \in TrySteps \ {"saveSuccess"} =>
            bundles[dl[d].id] = "downloading"
       /\ \A id \in BundleIds :
            (dl[d].id = id /\ bundles[id] # "success" /\ bundles'[id] = "success") =>
               /\ dl[d].pc \in {"unlink", "manifest"}
               /\ dl'[d].pc = "saveSuccess"
       /\ (dl'[d].pc = "returned" /\ dl[d].pc # "returned") =>
            bundles'[dl[d].id] = "success"
  ]_vars

\* a call with a session key and a manifest went through every step and
\* returned
C28_Witness ==
  \E d \in Slots :
    /\ Returned(d) /\ dl[d].sessionKey # "" /\ Len(Manifest(dl[d].manifest)) > 0
    /\ dl[d].mfetched # {} /\ bundles[dl[d].id] = "success"

\* the call of slot d has its id and has neither returned nor thrown
Working(d) == dl[d].pc \notin {"idle", "returned", "thrown"}

\* C29: two overlapping downloadBundle calls have distinct bundle ids and
\* distinct bundle directories; each call before its marking holds the record
\* of its own id at downloading; and no step of one call, its failure and
\* cleanup included, changes the directory, the files or the record of the
\* other call.
C29_OverlappingCallsIndependent ==
  [][\A d, e \in Slots :
       (d # e /\ Working(d) /\ Working(e)) =>
         /\ dl[d].id # dl[e].id
         /\ getBundlePath(dl[d].id) # getBundlePath(dl[e].id)
         /\ dl[e].pc \in TrySteps \ {"saveSuccess"} =>
              bundles[dl[e].id] = "downloading"
         /\ dl'[d] # dl[d] =>
              /\ dl'[e] = dl[e]
              /\ bundles'[dl[e].id] = bundles[dl[e].id]
              /\ (dl[e].id \in fsDirs') <=> (dl[e].id \in fsDirs)
              /\ \A p \in DOMAIN fsFiles :
                   IsPrefix(getBundlePath(dl[e].id), p) =>
                     p \in DOMAIN fsFiles' /\ fsFiles'[p] = fsFiles[p]
  ]_vars

\* while one call waits for its last save with its record at success and its
\* files in place, the other, which failed, has removed its directory and
\* record
C29_Witness ==
  \E d, e \in Slots :
    /\ dl[d].pc = "saveSuccess" /\ bundles[dl[d].id] = "success"
    /\ dl[d].id \in fsDirs /\ IndexPathOf(dl[d].id) \in DOMAIN fsFiles
    /\ dl[e].pc = "cleanupSave" /\ CleanedUp(dl[e].id)

\* C30: a download that has sent its request ends: the call throws or
\* returns, also against a server that keeps answering with redirects.
C30_DownloadEndsDespiteRedirects ==
  \A d \in Slots :
    (dl[d].pc \in {"fetch", "manifest"}) ~> (dl[d].pc \in {"thrown", "returned"})

\* a raw name that is an absolute path or has .. as one of its segments
RawNameUnsafe(name) == name.abs \/ \E i \in 1..Len(name.segs) : name.segs[i] = ".."

\* C31: a call that got past the extraction fetched an archive none of whose
\* entries has an absolute name or a raw name with .. as a segment, and a
\* call that got past the manifest pass had a manifest none of whose entries
\* has such a file_name.
C31_UnsafeNamesRejected ==
  \A d \in Slots :
    /\ dl[d].pc \in {"unlink", "manifest", "saveSuccess", "returned"} =>
         \A i \in 1..Len(Archive(dl[d].fetched.arch)) :
           ~RawNameUnsafe(Archive(dl[d].fetched.arch)[i])
    /\ dl[d].pc \in {"saveSuccess", "returned"} =>
         \A i \in 1..Len(Manifest(dl[d].manifest)) :
           ~RawNameUnsafe(Manifest(dl[d].manifest)[i].file_name)

\* the target of the i-th manifest entry of a call
TargetOf(d, i) == PathJoin(ExtractPathOf(dl[d].id), Manifest(dl[d].manifest)[i].file_name)

\* the i-th entry's target exists with acceptable content: file_hash is
\* absent or is the digest of the file
AlreadyThere(d, i) ==
  /\ TargetOf(d, i) \in DOMAIN fsFiles
  /\ \/ Manifest(dl[d].manifest)[i].file_hash = NoChecksum
     \/ Manifest(dl[d].manifest)[i].file_hash = hashFile(fsFiles[TargetOf(d, i)])

\* C32: in a manifest pass that completes, an entry is fetched if and only if
\* its target did not exist with acceptable content; in every pass, whether
\* it completes or fails, no entry whose target existed with acceptable
\* content is fetched, and its file is left unchanged.
C32_FetchedIffNotCached ==
  [][\A d \in Slots :
       (dl[d].pc = "manifest" /\ dl'[d].pc # "manifest") =>
         \A i \in 1..Len(Manifest(dl[d].manifest)) :
           /\ AlreadyThere(d, i) =>
                /\ i \notin dl'[d].mfetched
                /\ TargetOf(d, i) \in DOMAIN fsFiles'
                /\ fsFiles'[TargetOf(d, i)] = fsFiles[TargetOf(d, i)]
           /\ dl'[d].pc = "saveSuccess" =>
                (i \in dl'[d].mfetched <=> ~AlreadyThere(d, i))
  ]_vars

\* a manifest of three entries met two files of the archive: one fetch, and
\* the three files are there
C32_Witness ==
  \E d \in Slots :
    /\ dl[d].pc \in {"saveSuccess", "returned"}
    /\ dl[d].manifest = "three" /\ dl[d].fetched.arch = "pair"
    /\ dl[d].mfetched = {3}
    /\ \A i \in 1..3 : TargetOf(d, i) \in DOMAIN fsFiles

\* C33: every request carries the User-Agent built from the app id in force
\* when the request is made: the telemetry request a step sends, the channel
\* request a channel method makes, and the update request of getLatest.
C33_UserAgentOfAppIdInForce ==
  [][/\ sent'.event # NULL => StatsUserAgent = UserAgentOf(config.appId)
     /\ (chan.pc # "request" /\ chan'.pc = "request") =>
          ChannelUserAgent = UserAgentOf(config.appId)
     /\ (chk.pc = "getLatest" /\ chk'.pc # "getLatest") =>
          buildUserAgent = UserAgentOf(config.appId)
  ]_vars

====
